---- MODULE Spec2Model ----
(***************************************************************************)
(* Model of the rule evaluation engine, the file-level analyzers and the   *)
(* project scanners of mcp-server-next-react.                              *)
(*                                                                         *)
(* Source text and regular expressions are sequences of one-character      *)
(* strings.  A pattern is a literal (it matches exactly its own            *)
(* characters) unless it contains "(", which stands for a malformed        *)
(* pattern that `new RegExp` rejects with a SyntaxError.                   *)
(***************************************************************************)
EXTENDS Integers, Sequences, FiniteSets, TLC

VARIABLES
    rulesFile,   \* the rule files on disk: file name -> rule list
    disk,        \* the project directory: [manifest, hasApp, hasPages]
    detector,    \* ProjectDetector.cachedProjectInfo: <<>> (null) or <<info>>
    sec,         \* SecurityAnalyzer: [framework, rules]
    a11yRules,   \* AccessibilityAnalyzer.rules
    codeFw,      \* CodeAnalyzer.framework
    file,        \* the file the caller passes to the checks: [code, path]
    last,        \* the outcome of the last file-level check
    tree,        \* the directory a project-level scan walks
    scan,        \* the outcome of the last project-level scan
    fileState,   \* the rule files on disk: file name -> "ok", "missing" or "malformed"
    built,       \* `new CodeAnalyzer()`: "none" (not run), "ok" or "threw"
    reply,       \* what the last call of a management or detector method returned
    disabled,    \* history: the <<instance, rule id>> switched off and not switched on since
    stale,       \* history: a rule was switched since the check recorded in last
    configFiles, \* the configuration files: name -> <<>> (none that parses) or <<object>>
    configCache, \* ConfigManager.configs for the one config name: <<>> or <<config>>
    away,        \* the project directory under another root than the working directory
    env,         \* process.env.WORKSPACE_ROOT: <<>> (unset) or <<path>>
    workspace,   \* the directory at the path WORKSPACE_ROOT names
    calls,       \* the tool invocations in flight: where each one is and what it has seen
    reviewer     \* CodeReviewer: <<>> (not constructed) or <<[framework, rules]>>

vars == <<rulesFile, disk, detector, sec, a11yRules, codeFw, file, last, tree, scan,
          fileState, built, reply, disabled, stale, configFiles, configCache, away, env, workspace, calls, reviewer>>

\* What only the configuration manager touches.
beside == <<configFiles, configCache>>

\* What neither a file check nor a scan touches.
aside == <<fileState, built, reply, disabled, beside, away, env, workspace, calls, reviewer>>

\* What the configuration manager leaves alone.
engine == <<rulesFile, disk, detector, sec, a11yRules, codeFw, file, last, tree, scan,
            fileState, built, disabled, stale, away, env, workspace, calls, reviewer>>

-----------------------------------------------------------------------------
(* Bounds *)

MaxLen == 3

Alphabet == {"a", "b", "\n"}

RECURSIVE SeqsUpTo(_, _)
SeqsUpTo(S, n) ==
    IF n = 0 THEN {<<>>}
    ELSE LET shorter == SeqsUpTo(S, n - 1)
         IN  shorter \cup {Append(s, x) : s \in shorter, x \in S}

Texts == SeqsUpTo(Alphabet, MaxLen)

-----------------------------------------------------------------------------
(* JavaScript regular expressions over literal patterns *)

\* new RegExp(p) throws a SyntaxError for a malformed pattern.
ValidRegex(p) == \A k \in 1..Len(p) : p[k] # "("

\* The pattern matches the text at 0-based offset i.
MatchAt(p, code, i) ==
    /\ i + Len(p) <= Len(code)
    /\ \A k \in 1..Len(p) : code[i + k] = p[k]

\* regex.test(code) for a regex without the global flag.
RegexTest(p, code) == \E i \in 0..Len(code) : MatchAt(p, code, i)

\* The successive match offsets of `while ((match = regex.exec(code)) !== null)`
\* for a global regex whose lastIndex is `from`.
RECURSIVE ScanMatches(_, _, _)
ScanMatches(p, code, from) ==
    LET hits == {i \in from..Len(code) : MatchAt(p, code, i)}
    IN  IF hits = {} THEN <<>>
        ELSE LET i == CHOOSE h \in hits : \A g \in hits : h <= g
             IN  <<i>> \o ScanMatches(p, code, i + Len(p))

\* code.substring(0, index).split('\n').length
LineOf(code, index) == 1 + Cardinality({k \in 1..index : code[k] = "\n"})

-----------------------------------------------------------------------------
(* Glob matching *)

\* normalizedGlob.includes('**') and normalizedPath.includes(normalizedGlob)
Includes(s, sub) == \E i \in 0..Len(s) : MatchAt(sub, s, i)

\* The regex source built from a glob: special characters are escaped to
\* literals, then every "**" becomes ".*", then every "*" (those just written
\* by the previous step included) becomes "[^/]*".
RECURSIVE GlobPattern(_)
GlobPattern(glob) ==
    IF glob = <<>> THEN <<>>
    ELSE IF Len(glob) >= 2 /\ glob[1] = "*" /\ glob[2] = "*"
         THEN <<[t |-> "any"], [t |-> "seg"]>> \o GlobPattern(SubSeq(glob, 3, Len(glob)))
    ELSE IF glob[1] = "*"
         THEN <<[t |-> "seg"]>> \o GlobPattern(Tail(glob))
    ELSE <<[t |-> "lit", c |-> glob[1]]>> \o GlobPattern(Tail(glob))

\* new RegExp(`^${pattern}$`).test(path) for the patterns GlobPattern builds.
RECURSIVE GlobRegexTest(_, _)
GlobRegexTest(pat, path) ==
    IF pat = <<>> THEN path = <<>>
    ELSE IF pat[1].t = "lit"
         THEN path # <<>> /\ path[1] = pat[1].c /\ GlobRegexTest(Tail(pat), Tail(path))
    ELSE IF pat[1].t = "any"
         THEN path # <<>> /\ path[1] # "\n" /\ GlobRegexTest(Tail(pat), Tail(path))
    ELSE \E k \in 0..Len(path) :
            /\ \A j \in 1..k : path[j] # "/"
            /\ GlobRegexTest(Tail(pat), SubSeq(path, k + 1, Len(path)))

\* SecurityAnalyzer.matchesGlob
MatchesGlob(filePath, glob) ==
    IF Includes(glob, <<"*", "*">>)
    THEN GlobRegexTest(GlobPattern(glob), filePath)
    ELSE Includes(filePath, glob)

\* AccessibilityAnalyzer.matchesGlob
A11yMatchesGlob(filePath, glob) ==
    IF Includes(glob, <<"*", "*">>)
    THEN GlobRegexTest(GlobPattern(glob), filePath)
    ELSE Includes(filePath, glob)

-----------------------------------------------------------------------------
(* Rules *)

\* A rule is [id, severity, enabled, scope, detection], where detection is
\* [patterns, requirePatterns, requireAbsence, excludePatterns, fileGlobs];
\* a list the configuration omits is the empty list (`|| []`).
Detection(pats, req, abs, excl, globs) ==
    [patterns |-> pats, requirePatterns |-> req, requireAbsence |-> abs,
     excludePatterns |-> excl, fileGlobs |-> globs]

Rule(id, sev, en, scope, det) ==
    [id |-> id, severity |-> sev, enabled |-> en, scope |-> scope, detection |-> det]

-----------------------------------------------------------------------------
(* SecurityAnalyzer.checkRule *)

\* list.some(p => new RegExp(p).test(code)) with no handler of its own:
\* "true" at the first entry that matches, "throw" at a malformed entry met
\* before one, "false" otherwise.
RECURSIVE SecSome(_, _)
SecSome(pats, code) ==
    IF pats = <<>> THEN "false"
    ELSE IF ~ValidRegex(Head(pats)) THEN "throw"
    ELSE IF RegexTest(Head(pats), code) THEN "true"
    ELSE SecSome(Tail(pats), code)

Violation(rule, code, index) == [line |-> LineOf(code, index), code |-> rule.id]

RECURSIVE ViolationsAt(_, _, _)
ViolationsAt(rule, code, matches) ==
    IF matches = <<>> THEN <<>>
    ELSE <<Violation(rule, code, Head(matches))>> \o ViolationsAt(rule, code, Tail(matches))

\* requirePatterns.some(reqPattern => new RegExp(reqPattern).test(code))
SecHasRequired(requirePatterns, code) == SecSome(requirePatterns, code)

\* requireAbsence.some(absPattern => new RegExp(absPattern).test(code))
SecIgnoresAbsence(requireAbsence, code) == "false"
SecHasAbsence(requireAbsence, code) == SecSome(requireAbsence, code)

\* The body of the try block for one entry of patterns: [violations, warned].
\* The qualifier tests run inside the scan loop, once per match, on the whole
\* text: their outcome is the same at every match, and a throw at the first
\* match leaves the loop before anything is pushed.
SecScanPattern(rule, code, patternStr) ==
    LET det     == rule.detection
        matches == ScanMatches(patternStr, code, 0)
        req     == IF det.requirePatterns = <<>> THEN "true"
                   ELSE SecHasRequired(det.requirePatterns, code)
        abs     == IF det.requireAbsence = <<>> THEN "false"
                   ELSE SecHasAbsence(det.requireAbsence, code)
    IN  IF ~ValidRegex(patternStr) THEN [violations |-> <<>>, warned |-> TRUE]
        ELSE IF matches = <<>> THEN [violations |-> <<>>, warned |-> FALSE]
        ELSE IF req = "throw" THEN [violations |-> <<>>, warned |-> TRUE]
        ELSE IF req = "false" THEN [violations |-> <<>>, warned |-> FALSE]
        ELSE IF abs = "throw" THEN [violations |-> <<>>, warned |-> TRUE]
        ELSE IF abs = "true" THEN [violations |-> <<>>, warned |-> FALSE]
        ELSE [violations |-> ViolationsAt(rule, code, matches), warned |-> FALSE]

\* What one entry of patterns adds to the violations and the warnings of the
\* entries after it.
PatternStep(rule, patternStr, one, rest) ==
    [threw      |-> FALSE,
     violations |-> one.violations \o rest.violations,
     warnings   |-> (IF one.warned THEN <<[rule |-> rule.id, pattern |-> patternStr]>> ELSE <<>>)
                    \o rest.warnings]

\* A single try around the whole loop: a malformed entry ends the rule's scan.
RECURSIVE SecScanPatternsAbort(_, _, _)
SecScanPatternsAbort(rule, code, patterns) ==
    IF patterns = <<>> THEN [threw |-> FALSE, violations |-> <<>>, warnings |-> <<>>]
    ELSE IF ~ValidRegex(Head(patterns))
         THEN [threw |-> FALSE, violations |-> <<>>,
               warnings |-> <<[rule |-> rule.id, pattern |-> Head(patterns)]>>]
    ELSE PatternStep(rule, Head(patterns),
                     SecScanPattern(rule, code, Head(patterns)),
                     SecScanPatternsAbort(rule, code, Tail(patterns)))

\* for (const patternStr of patterns) { try { ... } catch { console.warn } }:
\* [threw, violations, warnings], threw being FALSE.
RECURSIVE SecScanPatterns(_, _, _)
SecScanPatterns(rule, code, patterns) ==
    IF patterns = <<>> THEN [threw |-> FALSE, violations |-> <<>>, warnings |-> <<>>]
    ELSE PatternStep(rule, Head(patterns),
                     SecScanPattern(rule, code, Head(patterns)),
                     SecScanPatterns(rule, code, Tail(patterns)))

NoViolations == [threw |-> FALSE, violations |-> <<>>, warnings |-> <<>>]
Thrown == [threw |-> TRUE, violations |-> <<>>, warnings |-> <<>>]

\* excludePatterns.some(pattern => new RegExp(pattern).test(code))
SecIgnoresExclusion(excludePatterns, code) == "false"
SecIsExcluded(excludePatterns, code) == SecSome(excludePatterns, code)

\* SecurityAnalyzer.checkRule: [threw, violations, warnings]
SecCheckRule(code, filePath, rule) ==
    LET det         == rule.detection
        shouldCheck == \E g \in 1..Len(det.fileGlobs) : MatchesGlob(filePath, det.fileGlobs[g])
        isExcluded  == SecIsExcluded(det.excludePatterns, code)
    IN  IF rule.scope = "config" /\ ~shouldCheck /\ Len(det.fileGlobs) > 0 THEN NoViolations
        ELSE IF isExcluded = "throw" THEN Thrown
        ELSE IF isExcluded = "true" THEN NoViolations
        ELSE SecScanPatterns(rule, code, det.patterns)

-----------------------------------------------------------------------------
(* AccessibilityAnalyzer.checkRule *)

\* list.some(p => { try { return new RegExp(p).test(code) } catch { return false } })
RECURSIVE A11ySome(_, _)
A11ySome(pats, code) ==
    IF pats = <<>> THEN FALSE
    ELSE IF ValidRegex(Head(pats)) /\ RegexTest(Head(pats), code) THEN TRUE
    ELSE A11ySome(Tail(pats), code)

\* The body of the try block for one entry of patterns: [violations, warned].
A11yScanPattern(rule, code, patternStr) ==
    LET det     == rule.detection
        matches == ScanMatches(patternStr, code, 0)
        hasRequired == A11ySome(det.requirePatterns, code)
        hasAbsence  == A11ySome(det.requireAbsence, code)
    IN  IF ~ValidRegex(patternStr) THEN [violations |-> <<>>, warned |-> TRUE]
        ELSE IF Len(det.requirePatterns) > 0 /\ ~hasRequired
             THEN [violations |-> <<>>, warned |-> FALSE]
        ELSE IF Len(det.requireAbsence) > 0 /\ hasAbsence
             THEN [violations |-> <<>>, warned |-> FALSE]
        ELSE [violations |-> ViolationsAt(rule, code, matches), warned |-> FALSE]

RECURSIVE A11yScanPatterns(_, _, _)
A11yScanPatterns(rule, code, patterns) ==
    IF patterns = <<>> THEN [threw |-> FALSE, violations |-> <<>>, warnings |-> <<>>]
    ELSE PatternStep(rule, Head(patterns),
                     A11yScanPattern(rule, code, Head(patterns)),
                     A11yScanPatterns(rule, code, Tail(patterns)))

\* AccessibilityAnalyzer.checkRule: [threw, violations, warnings]
A11yCheckRule(code, filePath, rule) ==
    LET det         == rule.detection
        shouldCheck == \E g \in 1..Len(det.fileGlobs) : A11yMatchesGlob(filePath, det.fileGlobs[g])
        isExcluded  == A11ySome(det.excludePatterns, code)
    IN  IF rule.scope = "config" /\ ~shouldCheck /\ Len(det.fileGlobs) > 0 THEN NoViolations
        ELSE IF isExcluded THEN NoViolations
        ELSE A11yScanPatterns(rule, code, det.patterns)

-----------------------------------------------------------------------------
(* File-level results *)

\* rule.severity === 'critical' ? 'error' : rule.severity === 'high' ? 'warning' : 'info'
IssueType(severity) ==
    IF severity = "critical" THEN "error"
    ELSE IF severity = "high" THEN "warning"
    ELSE "info"

RECURSIVE ToIssues(_, _, _)
ToIssues(rule, category, violations) ==
    IF violations = <<>> THEN <<>>
    ELSE <<[type |-> IssueType(rule.severity), category |-> category,
            line |-> Head(violations).line, code |-> rule.id]>>
         \o ToIssues(rule, category, Tail(violations))

CountType(issues, type) == Cardinality({k \in 1..Len(issues) : issues[k].type = type})

Max(x, y) == IF x >= y THEN x ELSE y
Min(x, y) == IF x <= y THEN x ELSE y

\* The penalty formula without its floor.
SecurityScoreUnclamped(issues) ==
    100 - CountType(issues, "error") * 20 - CountType(issues, "warning") * 10

\* Math.max(0, 100 - (criticalCount * 20) - (warningCount * 10))
SecurityScore(issues) ==
    Max(0, 100 - CountType(issues, "error") * 20 - CountType(issues, "warning") * 10)

\* if (!rule.enabled) continue;
SecNeverSkips(rule) == FALSE
SecSkipsRule(rule) == ~rule.enabled

\* What the rule's check adds to the outcome of the rules after it: a throw
\* of checkRule leaves the loop, and the method, at once.
RuleStep(rule, category, res, rest) ==
    IF res.threw \/ rest.threw
    THEN [threw |-> TRUE, issues |-> <<>>, ruleResults |-> <<>>,
          warnings |-> res.warnings \o (IF res.threw THEN <<>> ELSE rest.warnings)]
    ELSE [threw |-> FALSE,
          issues |-> ToIssues(rule, category, res.violations) \o rest.issues,
          ruleResults |-> <<[rule |-> rule, violations |-> res.violations]>> \o rest.ruleResults,
          warnings |-> res.warnings \o rest.warnings]

\* The loop over this.rules of analyzeCodeSecurity: [threw, issues, ruleResults, warnings]
RECURSIVE SecRunRules(_, _, _)
SecRunRules(code, filePath, rules) ==
    IF rules = <<>> THEN [threw |-> FALSE, issues |-> <<>>, ruleResults |-> <<>>, warnings |-> <<>>]
    ELSE IF SecSkipsRule(Head(rules)) THEN SecRunRules(code, filePath, Tail(rules))
    ELSE RuleStep(Head(rules), "security",
                  SecCheckRule(code, filePath, Head(rules)),
                  SecRunRules(code, filePath, Tail(rules)))

\* if (!rule.enabled) continue;
A11ySkipsRule(rule) == ~rule.enabled

\* The loop over this.rules of analyzeCodeAccessibility, whose checkRule never
\* throws.
RECURSIVE A11yRunRules(_, _, _)
A11yRunRules(code, filePath, rules) ==
    IF rules = <<>> THEN [threw |-> FALSE, issues |-> <<>>, ruleResults |-> <<>>, warnings |-> <<>>]
    ELSE IF A11ySkipsRule(Head(rules)) THEN A11yRunRules(code, filePath, Tail(rules))
    ELSE RuleStep(Head(rules), "accessibility",
                  A11yCheckRule(code, filePath, Head(rules)),
                  A11yRunRules(code, filePath, Tail(rules)))

-----------------------------------------------------------------------------
(* ProjectDetector *)

EndsWith(name, suffix) ==
    /\ Len(suffix) <= Len(name)
    /\ SubSeq(name, Len(name) - Len(suffix) + 1, Len(name)) = suffix

Ts == <<"t", "s">>
Tsx == <<"t", "s", "x">>
Js == <<"j", "s">>
Jsx == <<"j", "s", "x">>

\* A manifest is [state, dependencies, devDependencies]: state tells whether
\* package.json is "missing", "unparsable" (JSON.parse throws), "null" (it
\* parses to null) or "ok"; a dependency table gives for "next" and "react"
\* <<>> (no entry) or <<version>>.
Table(next, react) == [name \in {"next", "react"} |-> IF name = "next" THEN next ELSE react]

NoTable == Table(<<>>, <<>>)

\* { ...packageJson.dependencies, ...packageJson.devDependencies }
Spread(dependencies, devDependencies) ==
    [name \in {"next", "react"} |->
        IF devDependencies[name] # <<>> THEN devDependencies[name] ELSE dependencies[name]]

\* if (dependencies[name]): an entry whose version is not the empty string
Truthy(entry) == entry # <<>> /\ entry[1] # ""

\* The manifest exists and the body of the try runs to its end.
ManifestReads(m) == m.state = "ok"

\* let framework = 'unknown', assigned inside the try
FrameworkOf(m) ==
    IF ~ManifestReads(m) THEN "unknown"
    ELSE IF Truthy(Spread(m.dependencies, m.devDependencies)["next"]) THEN "nextjs"
    ELSE IF Truthy(Spread(m.dependencies, m.devDependencies)["react"]) THEN "react"
    ELSE "unknown"

\* nextVersion and reactVersion: <<>> when undefined
NextVersionOf(m) ==
    IF FrameworkOf(m) = "nextjs" THEN Spread(m.dependencies, m.devDependencies)["next"] ELSE <<>>

ReactVersionOf(m) ==
    IF ManifestReads(m) THEN Spread(m.dependencies, m.devDependencies)["react"] ELSE <<>>

\* if (framework === 'nextjs') hasAppRouter = existsSync(app) || existsSync(src/app)
HasRouterAnyway(framework, exists) == exists
HasRouter(framework, exists) == framework = "nextjs" /\ exists

\* The profile detectFramework computes from the manifest and the directories.
ComputeProjectInfo(d) ==
    [framework      |-> FrameworkOf(d.manifest),
     hasAppRouter   |-> HasRouter(FrameworkOf(d.manifest), d.hasApp),
     hasPagesRouter |-> HasRouter(FrameworkOf(d.manifest), d.hasPages),
     nextVersion    |-> NextVersionOf(d.manifest),
     reactVersion   |-> ReactVersionOf(d.manifest)]

\* detectFramework: the cached profile if there is one, else a fresh one.
DetectFrameworkAfresh(cache, d) == ComputeProjectInfo(d)
DetectFramework(cache, d) == IF cache # <<>> THEN cache[1] ELSE ComputeProjectInfo(d)

\* filePath.replace(/\\/g, '/')
NormalizePath(filePath) ==
    [k \in 1..Len(filePath) |-> IF filePath[k] = "\\" THEN "/" ELSE filePath[k]]

SpecialNames ==
    { <<"l", "a", "y", "o", "u", "t">>, <<"p", "a", "g", "e">>,
      <<"l", "o", "a", "d", "i", "n", "g">>, <<"e", "r", "r", "o", "r">>,
      <<"n", "o", "t", "-", "f", "o", "u", "n", "d">>,
      <<"t", "e", "m", "p", "l", "a", "t", "e">>, <<"r", "o", "u", "t", "e">> }

\* /\/(layout|page|loading|error|not-found|template|route)\.(tsx?|jsx?)$/
IsSpecialFile(path) ==
    \E name \in SpecialNames, ext \in {Ts, Tsx, Js, Jsx} :
        EndsWith(path, <<"/">> \o name \o <<".">> \o ext)

\* The path test of a Next.js project.
InNextFolder(filePath) ==
    \/ Includes(NormalizePath(filePath), <<"/", "a", "p", "p", "/">>)
    \/ Includes(NormalizePath(filePath), <<"/", "p", "a", "g", "e", "s", "/">>)
    \/ IsSpecialFile(NormalizePath(filePath))

\* detectFrameworkForFile: both outcomes of the path test of a Next.js
\* project are 'nextjs'.
DetectByFolder(info, filePath) ==
    IF info.framework = "nextjs" /\ ~InNextFolder(filePath) THEN "react" ELSE info.framework
DetectFrameworkForFile(info, filePath) ==
    IF info.framework = "nextjs"
    THEN IF InNextFolder(filePath)
         THEN "nextjs"
         ELSE "nextjs"
    ELSE info.framework

-----------------------------------------------------------------------------
(* Loading rules *)

SecurityRulesFileName(framework) ==
    IF framework = "react" THEN "react-security" ELSE "nextjs-security"

BestPracticesFileName(framework) ==
    IF framework = "react" THEN "react-best-practices" ELSE "nextjs-best-practices"

RuleFileNames ==
    {"react-security", "nextjs-security", "accessibility",
     "react-best-practices", "nextjs-best-practices"}

\* loadSecurityRules(framework) on the analyzer `self`: its [framework, rules]
\* afterwards.  A missing file empties the rules; a file that does not parse
\* throws after this.framework is assigned, leaving this.rules as they were.
LoadSecurityRules(self, framework) ==
    [framework |-> framework,
     rules |-> IF fileState[SecurityRulesFileName(framework)] = "missing" THEN <<>>
               ELSE IF fileState[SecurityRulesFileName(framework)] = "malformed" THEN self.rules
               ELSE rulesFile[SecurityRulesFileName(framework)]]

\* JSON.parse(rulesContent) outside any try/catch
SecLoadThrows(framework) == fileState[SecurityRulesFileName(framework)] = "malformed"

\* loadAccessibilityRules: this.rules afterwards; it never throws.
LoadAccessibilityRules ==
    IF fileState["accessibility"] = "ok" THEN rulesFile["accessibility"] ELSE <<>>

\* CodeAnalyzer.loadRules reads and parses with neither an existence test nor
\* a try/catch.
CodeLoadThrows(framework) == fileState[BestPracticesFileName(framework)] # "ok"

-----------------------------------------------------------------------------
(* File-level checks *)

NoReply == [op |-> "none"]

NoConfigFiles == [name \in {"default", "user", "preset", "project"} |-> <<>>]

NoCheck ==
    [op |-> "none", rules |-> <<>>, threw |-> FALSE,
     issues |-> <<>>, ruleResults |-> <<>>, score |-> 100, warnings |-> <<>>]

\* if (fileFramework !== this.framework && fileFramework !== 'unknown')
SecReloads(info, filePath) ==
    /\ DetectFrameworkForFile(info, filePath) # sec.framework
    /\ DetectFrameworkForFile(info, filePath) # "unknown"

\* The analyzer after the framework test that opens analyzeCodeSecurity.
SecAfterDetect(info, filePath) ==
    IF SecReloads(info, filePath)
    THEN LoadSecurityRules(sec, DetectFrameworkForFile(info, filePath))
    ELSE sec

\* The reload of the rules throws: the promise of the check rejects.
SecDetectThrows(info, filePath) ==
    SecReloads(info, filePath) /\ SecLoadThrows(DetectFrameworkForFile(info, filePath))

ThrownRun == [threw |-> TRUE, issues |-> <<>>, ruleResults |-> <<>>, warnings |-> <<>>]

\* The result object built from the outcome of a rule loop.
ResultOf(op, rules, run, score) ==
    [op |-> op, rules |-> rules, threw |-> run.threw,
     issues |-> run.issues, ruleResults |-> run.ruleResults,
     score |-> score, warnings |-> run.warnings]

SecurityResultOf(rules, run) == ResultOf("security", rules, run, SecurityScore(run.issues))

\* The result analyzeCodeSecurity returns (threw: the promise rejects).
SecurityResult(code, filePath, rules) ==
    SecurityResultOf(rules, SecRunRules(code, filePath, rules))

\* The result analyzeCodeAccessibility returns; it carries no score.
AccessibilityResult(code, filePath, rules) ==
    ResultOf("accessibility", rules, A11yRunRules(code, filePath, rules), 100)

\* SecurityAnalyzer.analyzeCodeSecurity
AnalyzeCodeSecurity(code, filePath) ==
    LET info   == DetectFramework(detector, disk)
        loaded == SecAfterDetect(info, filePath)
    IN  /\ detector' = <<info>>
        /\ sec' = loaded
        /\ last' = IF SecDetectThrows(info, filePath)
                   THEN SecurityResultOf(loaded.rules, ThrownRun)
                   ELSE SecurityResult(code, filePath, loaded.rules)
        /\ stale' = FALSE
        /\ UNCHANGED <<rulesFile, disk, a11yRules, codeFw, file, tree, scan, aside>>

\* AccessibilityAnalyzer.analyzeCodeAccessibility
AnalyzeCodeAccessibility(code, filePath) ==
    /\ last' = AccessibilityResult(code, filePath, a11yRules)
    /\ stale' = FALSE
    /\ UNCHANGED <<rulesFile, disk, detector, sec, a11yRules, codeFw, file, tree, scan, aside>>

\* Math.max(0, 100 - (errorCount * 10) - (warningCount * 5))
CodeScore(issues) ==
    Max(0, 100 - CountType(issues, "error") * 10 - CountType(issues, "warning") * 5)

\* The issues pushed by the fixed checks of checkNextJsPatterns and
\* checkReactPatterns.  Each of them tests the text for JavaScript source
\* (a hook call, a JSX tag, a data-fetching function, ...): none occurs in a
\* text over Alphabet.
BuiltinChecks(code, filePath) == <<>>

\* The framework after the test that opens analyzeCode.
CodeAfterDetect(info, filePath) ==
    LET fileFramework == DetectFrameworkForFile(info, filePath)
    IN  IF fileFramework # codeFw /\ fileFramework # "unknown" THEN fileFramework ELSE codeFw

\* this.loadRules(fileFramework) throws: the promise of analyzeCode rejects.
CodeDetectThrows(info, filePath) ==
    /\ DetectFrameworkForFile(info, filePath) # codeFw
    /\ DetectFrameworkForFile(info, filePath) # "unknown"
    /\ CodeLoadThrows(DetectFrameworkForFile(info, filePath))

\* The issues of analyzeCode, in the order they are pushed.
CodeIssues(builtin, framework, secRun, a11yRun) ==
    builtin
    \o (IF framework = "nextjs" /\ ~secRun.threw THEN secRun.issues ELSE <<>>)
    \o a11yRun.issues

CodeResultOf(issues, a11yRun) ==
    [op |-> "code", rules |-> a11yRules, threw |-> FALSE,
     issues |-> issues, ruleResults |-> a11yRun.ruleResults,
     score |-> CodeScore(issues), warnings |-> a11yRun.warnings]

A11yThen(a11yRun, builtin, framework, secRun) ==
    CodeResultOf(CodeIssues(builtin, framework, secRun, a11yRun), a11yRun)

\* The result analyzeCode returns.  In the Next.js branch the security check
\* is started without being awaited: its promise is already settled when
\* `.then` registers the callback, so the callback runs in the microtask queued
\* before the continuation of `await analyzeCodeAccessibility(...)`; a rejected
\* check never runs it.
CodeResult(code, filePath, framework, secRules) ==
    A11yThen(A11yRunRules(code, filePath, a11yRules),
             BuiltinChecks(code, filePath), framework,
             SecRunRules(code, filePath, secRules))

\* The same when the security check rejected while reloading its rules.
CodeResultSecThrew(code, filePath, framework) ==
    A11yThen(A11yRunRules(code, filePath, a11yRules),
             BuiltinChecks(code, filePath), framework, ThrownRun)

\* CodeAnalyzer.analyzeCode
AnalyzeCode(code, filePath) ==
    LET info      == DetectFramework(detector, disk)
        framework == CodeAfterDetect(info, filePath)
        throws    == CodeDetectThrows(info, filePath)
        loaded    == IF framework = "nextjs" /\ ~throws THEN SecAfterDetect(info, filePath) ELSE sec
    IN  /\ detector' = <<info>>
        /\ codeFw' = framework
        /\ sec' = loaded
        /\ last' = IF throws THEN ResultOf("code", a11yRules, ThrownRun, 100)
                   ELSE IF SecDetectThrows(info, filePath)
                   THEN CodeResultSecThrew(code, filePath, framework)
                   ELSE CodeResult(code, filePath, framework, loaded.rules)
        /\ stale' = FALSE
        /\ UNCHANGED <<rulesFile, disk, a11yRules, file, tree, scan, aside>>

-----------------------------------------------------------------------------
(* Directory traversal *)

\* A directory entry is [name, kind, readable, text, entries]: a file has a
\* text, a directory has entries; readdirSync and readFileSync throw on an
\* entry that is not readable.

\* /\.(test|spec)\.(ts|tsx|js|jsx)$/.test(entry.name)
IsTestName(name) ==
    \E mid \in {<<"t", "e", "s", "t">>, <<"s", "p", "e", "c">>}, ext \in {Ts, Tsx, Js, Jsx} :
        EndsWith(name, <<".">> \o mid \o <<".">> \o ext)

\* path.extname(entry.name): from the last dot, unless the name has none or
\* only a leading one.
ExtName(name) ==
    LET dots == {k \in 1..Len(name) : name[k] = "."}
        last_ == CHOOSE k \in dots : \A d \in dots : d <= k
    IN  IF dots = {} \/ last_ = 1 THEN <<>> ELSE SubSeq(name, last_ + 1, Len(name))

\* ['.ts', '.tsx', '.js', '.jsx'].includes(ext)
HasSourceExt(name) == ExtName(name) \in {Ts, Tsx, Js, Jsx}

\* /\.(tsx|jsx|ts|js)$/.test(entry.name)
MatchesSourceRegex(name) ==
    \E ext \in {Ts, Tsx, Js, Jsx} : EndsWith(name, <<".">> \o ext)

\* excludedDirs of getAllSourceFiles
ExcludedDirs ==
    { <<"n", "o", "d", "e", "_", "m", "o", "d", "u", "l", "e", "s">>,
      <<"b", "u", "i", "l", "d">>,
      <<"d", "i", "s", "t">>,
      <<".", "n", "e", "x", "t">>,
      <<".", "g", "i", "t">>,
      <<"c", "o", "v", "e", "r", "a", "g", "e">>,
      <<".", "h", "i", "s", "t", "o", "r", "y">>,
      <<".", "v", "s", "c", "o", "d", "e">>,
      <<".", "c", "a", "c", "h", "e">>,
      <<".", "t", "u", "r", "b", "o">>,
      <<".", "n", "u", "x", "t">>,
      <<".", "o", "u", "t", "p", "u", "t">>,
      <<"o", "u", "t">> }

\* The list both analyzers test in their own project scans.
AnalyzerExcludedDirs ==
    { <<"n", "o", "d", "e", "_", "m", "o", "d", "u", "l", "e", "s">>,
      <<".", "g", "i", "t">>,
      <<"b", "u", "i", "l", "d">>,
      <<"d", "i", "s", "t">>,
      <<".", "n", "e", "x", "t">>,
      <<".", "e", "n", "v", ".", "l", "o", "c", "a", "l">> }

Join(dir, name) == dir \o <<"/">> \o name

FileAt(path, entry) == [path |-> path, text |-> entry.text, readable |-> entry.readable]

\* The concatenation of seqs[lo], ..., seqs[hi].
RECURSIVE Concat(_, _, _)
Concat(seqs, lo, hi) ==
    IF lo > hi THEN <<>>
    ELSE IF lo = hi THEN seqs[lo]
    ELSE LET mid == (lo + hi) \div 2
         IN  Concat(seqs, lo, mid) \o Concat(seqs, mid + 1, hi)

\* getAllSourceFiles: scan(currentDir), with its try/catch around the listing;
\* each entry contributes the files found at it, in the order of the listing.
RECURSIVE SourceFilesIn(_, _, _, _)
SourceFilesIn(entries, readable, dir, includeTests) ==
    IF ~readable THEN <<>>
    ELSE LET at == [k \in 1..Len(entries) |->
                      LET entry    == entries[k]
                          fullPath == Join(dir, entry.name)
                      IN  IF entry.kind = "dir"
                          THEN IF entry.name \notin ExcludedDirs
                               THEN SourceFilesIn(entry.entries, entry.readable,
                                                  fullPath, includeTests)
                               ELSE <<>>
                          ELSE IF HasSourceExt(entry.name)
                                  /\ (includeTests \/ ~IsTestName(entry.name))
                               THEN <<FileAt(fullPath, entry)>>
                               ELSE <<>>]
         IN  Concat(at, 1, Len(entries))

GetAllSourceFiles(root, dir, includeTests) ==
    SourceFilesIn(root.entries, root.readable, dir, includeTests)

\* The `scan` closure of both analyzers' project scans, a failed listing
\* yielding nothing.
RECURSIVE AnalyzerFilesIn(_, _, _)
AnalyzerFilesIn(entries, readable, dir) ==
    IF ~readable THEN <<>>
    ELSE LET at == [k \in 1..Len(entries) |->
                      LET entry    == entries[k]
                          fullPath == Join(dir, entry.name)
                      IN  IF entry.kind = "dir"
                          THEN IF entry.name \notin AnalyzerExcludedDirs
                               THEN AnalyzerFilesIn(entry.entries, entry.readable, fullPath)
                               ELSE <<>>
                          ELSE IF MatchesSourceRegex(entry.name) /\ ~IsTestName(entry.name)
                               THEN <<FileAt(fullPath, entry)>>
                               ELSE <<>>]
         IN  Concat(at, 1, Len(entries))

\* Whether readdirSync throws somewhere in that traversal.
RECURSIVE ListingFails(_, _)
ListingFails(entries, readable) ==
    \/ ~readable
    \/ \E k \in 1..Len(entries) :
          /\ entries[k].kind = "dir"
          /\ entries[k].name \notin AnalyzerExcludedDirs
          /\ ListingFails(entries[k].entries, entries[k].readable)

-----------------------------------------------------------------------------
(* Project-level scans *)

MaxResults == 50

\* A project directory with nothing in it.
EmptyTree == [name |-> <<>>, kind |-> "dir", readable |-> TRUE, text |-> <<>>, entries |-> <<>>]

\* No scan has run.  A scan leaves the object it returns together with the
\* directory it was pointed at (root) and the files it found, checked
\* (evaluated) and skipped on an error (failed).
NoScan ==
    [op |-> "none", root |-> <<>>, threw |-> FALSE, totalFilesScanned |-> 0, filesWithIssues |-> 0,
     totalViolations |-> 0, criticalViolations |-> 0, highViolations |-> 0,
     results |-> <<>>, found |-> <<>>, evaluated |-> <<>>, failed |-> <<>>]

\* The whole list.
Unlimited(results) == results

\* results.slice(0, 50)
Limit(results) == SubSeq(results, 1, Min(MaxResults, Len(results)))

\* What a scan reads of one file: its path, whether its read or its check
\* threw, and the numbers of its issues, of its 'error' issues and of its
\* 'warning' issues.
Checked(f, res) ==
    [file |-> f.path, threw |-> ~f.readable \/ res.threw, issues |-> Len(res.issues),
     errors |-> CountType(res.issues, "error"), warnings |-> CountType(res.issues, "warning")]

\* The files of a scan as their reads and checks describe them.
CheckedSecurity(files, rules) ==
    [k \in 1..Len(files) |->
        Checked(files[k], SecurityResult(files[k].text, files[k].path, rules))]

CheckedAccessibility(files, rules) ==
    [k \in 1..Len(files) |->
        Checked(files[k], AccessibilityResult(files[k].text, files[k].path, rules))]

CheckedCode(files, framework, rules) ==
    [k \in 1..Len(files) |->
        Checked(files[k], CodeResult(files[k].text, files[k].path, framework, rules))]

\* The same loop pushing the result of every file whose check returned.
ScanFilesPushAll(all, catches) ==
    [threw     |-> ~catches /\ \E k \in 1..Len(all) : all[k].threw,
     results   |-> SelectSeq(all, LAMBDA c : ~c.threw),
     evaluated |-> SelectSeq(all, LAMBDA c : ~c.threw),
     failed    |-> SelectSeq(all, LAMBDA c : c.threw)]

\* `for (const filePath of files)` over the files as Checked describes them:
\* read the file, check it, push its result if it has issues.  `catches`
\* tells whether the body sits in a try/catch: without one the loop ends at
\* the first file that throws.  evaluated lists
\* the files whose check returned, failed those whose read or check threw.
ScanFiles(all, catches) ==
    LET thrown  == {k \in 1..Len(all) : all[k].threw}
        stop    == IF catches \/ thrown = {} THEN Len(all)
                   ELSE CHOOSE k \in thrown : \A j \in thrown : k <= j
        reached == SubSeq(all, 1, stop)
    IN  [threw     |-> ~catches /\ thrown # {},
         results   |-> SelectSeq(reached, LAMBDA c : ~c.threw /\ c.issues > 0),
         evaluated |-> SelectSeq(reached, LAMBDA c : ~c.threw),
         failed    |-> SelectSeq(reached, LAMBDA c : c.threw)]

\* results.reduce((sum, r) => sum + r[field], 0), and the running totals.
RECURSIVE Sum(_, _, _, _)
Sum(results, field, lo, hi) ==
    IF lo > hi THEN 0
    ELSE IF lo = hi THEN results[lo][field]
    ELSE LET mid == (lo + hi) \div 2
         IN  Sum(results, field, lo, mid) + Sum(results, field, mid + 1, hi)

Total(results, field) == Sum(results, field, 1, Len(results))

Paths(files) == [k \in 1..Len(files) |-> files[k].path]

\* The object a scan returns, with the directory it was pointed at and the
\* files it found, checked and skipped.
ScanResult(op, root, files, pass) ==
    [op |-> op, root |-> root, threw |-> pass.threw,
     totalFilesScanned |-> Len(files),
     filesWithIssues |-> Len(pass.results),
     totalViolations |-> Total(pass.results, "issues"),
     criticalViolations |-> Total(pass.results, "errors"),
     highViolations |-> Total(pass.results, "warnings"),
     results |-> Limit(pass.results),
     found |-> Paths(files), evaluated |-> pass.evaluated, failed |-> pass.failed]

ScanThrew(op, root) == [NoScan EXCEPT !.op = op, !.root = root, !.threw = TRUE]

Root == <<"/", "w">>

\* The analyzers' state after the checks of a scan: the first check detects
\* the framework and may reload the rules; the later ones find them loaded.
\* (detectFrameworkForFile gives the same answer for every path.)
AnyReadable(files) == \E k \in 1..Len(files) : files[k].readable

SecAfterScan(files, info) ==
    IF AnyReadable(files) THEN SecAfterDetect(info, Root) ELSE sec

CodeAfterScan(files, info) ==
    IF AnyReadable(files) THEN CodeAfterDetect(info, Root) ELSE codeFw

FirstReadable(files) ==
    CHOOSE k \in 1..Len(files) : files[k].readable /\ \A j \in 1..(k - 1) : ~files[j].readable

\* A reload that throws rejects the check that made it, the first one of the
\* scan; the later checks find the framework assigned and do not reload.
ReloadFails(all, files, throws) ==
    IF throws /\ AnyReadable(files)
    THEN [all EXCEPT ![FirstReadable(files)].threw = TRUE]
    ELSE all

\* In analyzeCode a security check that rejects while reloading leaves the
\* file its other issues.
SecReloadFails(all, files, framework, throws) ==
    IF throws /\ AnyReadable(files)
    THEN [all EXCEPT ![FirstReadable(files)] =
            Checked(files[FirstReadable(files)],
                    CodeResultSecThrew(files[FirstReadable(files)].text,
                                       files[FirstReadable(files)].path, framework))]
    ELSE all

\* SecurityAnalyzer.analyzeProjectSecurity
AnalyzeProjectSecurity ==
    LET files  == AnalyzerFilesIn(tree.entries, tree.readable, Root)
        info   == DetectFramework(detector, disk)
        loaded == SecAfterScan(files, info)
        pass   == ScanFiles(ReloadFails(CheckedSecurity(files, loaded.rules), files,
                                        SecDetectThrows(info, Root)),
                            TRUE)
    IN  /\ scan' = ScanResult("analyzeProjectSecurity", Root, files, pass)
        /\ sec' = loaded
        /\ detector' = IF AnyReadable(files) THEN <<info>> ELSE detector
        /\ UNCHANGED <<rulesFile, disk, a11yRules, codeFw, file, last, tree, aside, stale>>

\* AccessibilityAnalyzer.analyzeProjectAccessibility: neither the listing nor
\* the loop body sits in a try/catch.
AnalyzeProjectAccessibility ==
    LET files == AnalyzerFilesIn(tree.entries, tree.readable, Root)
        pass  == ScanFiles(CheckedAccessibility(files, a11yRules),
                           FALSE)
    IN  /\ scan' = IF ListingFails(tree.entries, tree.readable)
                   THEN ScanThrew("analyzeProjectAccessibility", Root)
                   ELSE IF pass.threw
                   THEN [ScanThrew("analyzeProjectAccessibility", Root) EXCEPT
                            !.found = Paths(files),
                            !.evaluated = pass.evaluated, !.failed = pass.failed]
                   ELSE ScanResult("analyzeProjectAccessibility", Root, files, pass)
        /\ UNCHANGED <<rulesFile, disk, detector, sec, a11yRules, codeFw, file, last, tree, aside, stale>>

\* The directories a directory scan is pointed at: the root or one of its
\* directories.
ScanDirs ==
    {[path |-> Root, node |-> tree]}
    \cup {[path |-> Join(Root, tree.entries[k].name), node |-> tree.entries[k]] :
            k \in {j \in 1..Len(tree.entries) : tree.entries[j].kind = "dir"}}

\* The loop shared by analyzeProject and analyzeDirectory (totalFiles and
\* summary.totalIssues are kept as totalFilesScanned and totalViolations).
AnalyzeFiles(op, root, files) ==
    LET info      == DetectFramework(detector, disk)
        framework == CodeAfterScan(files, info)
        throws    == CodeDetectThrows(info, Root)
        loaded    == IF framework = "nextjs" /\ ~throws THEN SecAfterScan(files, info) ELSE sec
        pass      == ScanFiles(ReloadFails(SecReloadFails(CheckedCode(files, framework, loaded.rules),
                                                          files, framework,
                                                          ~throws /\ framework = "nextjs"
                                                            /\ SecDetectThrows(info, Root)),
                                           files, throws),
                               TRUE)
    IN  /\ scan' = ScanResult(op, root, files, pass)
        /\ codeFw' = framework
        /\ sec' = loaded
        /\ detector' = IF AnyReadable(files) THEN <<info>> ELSE detector
        /\ UNCHANGED <<rulesFile, disk, a11yRules, file, last, tree, aside, stale>>

\* `process.env.WORKSPACE_ROOT || process.cwd()`: an empty value is no value.
ProjectRoot(variable) == IF variable # <<>> /\ variable[1] # <<>> THEN variable[1] ELSE Root

\* The directory at a path: the working directory, or the one WORKSPACE_ROOT
\* names.
TreeAt(root) == IF root = Root THEN tree ELSE workspace

\* analyzeProject(analyzer, includeTests)
AnalyzeProject(includeTests) ==
    AnalyzeFiles("analyzeProject", ProjectRoot(env),
                 GetAllSourceFiles(TreeAt(ProjectRoot(env)), ProjectRoot(env), includeTests))

\* The walk of reviewProject, optimizeProject and findRepeatedCodeInProject:
\* the root, the files found under it, and which of them were read (a file
\* that cannot be read is logged and skipped).  What the reviewer, the
\* optimizer and the pattern finder report on a file is not modelled.
WalkProject(op) ==
    LET files == GetAllSourceFiles(TreeAt(ProjectRoot(env)), ProjectRoot(env), FALSE)
    IN  /\ scan' = [NoScan EXCEPT !.op = op, !.root = ProjectRoot(env),
                                  !.totalFilesScanned = Len(files),
                                  !.found = Paths(files),
                                  !.evaluated = Paths(SelectSeq(files, LAMBDA f : f.readable)),
                                  !.failed = Paths(SelectSeq(files, LAMBDA f : ~f.readable))]
        /\ UNCHANGED <<rulesFile, disk, detector, sec, a11yRules, codeFw, file, last, tree, aside, stale>>

\* analyzeDirectory(analyzer, dir, includeTests)
AnalyzeDirectory(dir, includeTests) ==
    AnalyzeFiles("analyzeDirectory", dir.path, GetAllSourceFiles(dir.node, dir.path, includeTests))

\* checkAccessibilityInDirectory(analyzer, dir)
CheckAccessibilityInDirectory(dir) ==
    LET files == GetAllSourceFiles(dir.node, dir.path, FALSE)
        pass  == ScanFiles(CheckedAccessibility(files, a11yRules),
                           TRUE)
    IN  /\ scan' = ScanResult("checkAccessibilityInDirectory", dir.path, files, pass)
        /\ UNCHANGED <<rulesFile, disk, detector, sec, a11yRules, codeFw, file, last, tree, aside, stale>>

\* checkSecurityInDirectory(analyzer, dir)
CheckSecurityInDirectory(dir) ==
    LET files  == GetAllSourceFiles(dir.node, dir.path, FALSE)
        info   == DetectFramework(detector, disk)
        loaded == SecAfterScan(files, info)
        pass   == ScanFiles(ReloadFails(CheckedSecurity(files, loaded.rules), files,
                                        SecDetectThrows(info, Root)),
                            TRUE)
    IN  /\ scan' = ScanResult("checkSecurityInDirectory", dir.path, files, pass)
        /\ sec' = loaded
        /\ detector' = IF AnyReadable(files) THEN <<info>> ELSE detector
        /\ UNCHANGED <<rulesFile, disk, a11yRules, codeFw, file, last, tree, aside, stale>>

-----------------------------------------------------------------------------
(* Inputs *)

A == <<"a">>
B == <<"b">>
NL == <<"\n">>
AB == <<"a", "b">>
BA == <<"b", "a">>
Bad == <<"(">>

Severities == {"critical", "high", "medium", "low"}

\* A rule under test with every combination of qualifiers, valid and
\* malformed, followed by a plain second rule.
QualifierRuleLists ==
    { << Rule("r1", "critical", TRUE, "code", Detection(pats, req, abs, excl, <<>>)),
         Rule("r2", "high", TRUE, "code", Detection(<<B>>, <<>>, <<>>, <<>>, <<>>)) >> :
        pats \in {<<A>>, <<A, AB>>, <<Bad, A>>, <<A, Bad, B>>},
        req  \in {<<>>, <<B>>, <<Bad, B>>},
        abs  \in {<<>>, <<NL>>, <<NL, Bad>>},
        excl \in {<<>>, <<BA>>, <<BA, Bad>>} }

\* Two rules of every severity, enabled or not; the first reports each match twice.
SeverityRuleLists ==
    { << Rule("r1", s1, e1, "code", Detection(<<A, A>>, <<>>, <<>>, <<>>, <<>>)),
         Rule("r2", s2, e2, "code", Detection(<<B>>, <<>>, <<>>, <<>>, <<>>)) >> :
        s1 \in Severities, s2 \in Severities, e1 \in BOOLEAN, e2 \in BOOLEAN }

\* A config-scoped rule restricted by file globs.
ConfigRuleLists ==
    { << Rule("r1", "medium", TRUE, scope, Detection(<<A>>, <<>>, <<>>, <<>>, globs)) >> :
        scope \in {"code", "config"},
        globs \in {<<>>, << <<"d", "/">> >>, << <<"*", "*", "/", "*", ".", "j">> >>} }

RuleLists == QualifierRuleLists \cup SeverityRuleLists \cup ConfigRuleLists

PlainPath == <<"x", ".", "j">>
NestedPath == <<"d", "/", "e", "/", "x", ".", "j">>

\* The rule file and the path of the file under check.
Configurations ==
    {[rules |-> cfg, path |-> PlainPath] : cfg \in QualifierRuleLists \cup SeverityRuleLists}
    \cup {[rules |-> cfg, path |-> p] : cfg \in ConfigRuleLists, p \in {PlainPath, NestedPath}}

-----------------------------------------------------------------------------
(* The rule engine: analyzers constructed over a rule file, then file checks *)

Manifest(dependencies, devDependencies) ==
    [state |-> "ok", dependencies |-> dependencies, devDependencies |-> devDependencies]

NextProject ==
    [manifest |-> Manifest(Table(<<"14">>, <<"18">>), NoTable),
     hasApp |-> TRUE, hasPages |-> FALSE]

\* The state after `new CodeAnalyzer()`: loadRules has detected the framework
\* (filling the detector's cache) and both analyzers have loaded their rules.
Init ==
    /\ \E cfg \in Configurations, code \in Texts :
          /\ rulesFile = [f \in {"react-security", "nextjs-security", "accessibility"} |-> cfg.rules]
          /\ a11yRules = cfg.rules
          /\ sec = [framework |-> "nextjs", rules |-> cfg.rules]
          /\ file = [code |-> code, path |-> cfg.path]
    /\ disk = NextProject
    /\ detector = <<ComputeProjectInfo(NextProject)>>
    /\ codeFw = "nextjs"
    /\ last = NoCheck
    /\ tree = EmptyTree
    /\ scan = NoScan
    /\ fileState = [f \in RuleFileNames |-> "ok"]
    /\ built = "ok"
    /\ reply = NoReply
    /\ disabled = {}
    /\ stale = FALSE
    /\ configFiles = NoConfigFiles
    /\ configCache = <<>>
    /\ away = NextProject
    /\ env = <<>>
    /\ workspace = EmptyTree
    /\ reviewer = <<>>
    /\ calls = <<>>

CheckSecurity == built = "ok" /\ AnalyzeCodeSecurity(file.code, file.path)

CheckAccessibility == built = "ok" /\ AnalyzeCodeAccessibility(file.code, file.path)

CheckCode == built = "ok" /\ AnalyzeCode(file.code, file.path)

Next ==
    \/ CheckSecurity
    \/ CheckAccessibility
    \/ CheckCode

Spec == Init /\ [][Next]_vars

-----------------------------------------------------------------------------
(* The scanners: a project on disk, then whole-project and directory scans *)

MaxFiles == 52

File(name, text, readable) ==
    [name |-> name, kind |-> "file", readable |-> readable, text |-> text, entries |-> <<>>]

Dir(name, entries, readable) ==
    [name |-> name, kind |-> "dir", readable |-> readable, text |-> <<>>, entries |-> entries]

DigitChar == <<"0", "1", "2", "3", "4", "5", "6", "7", "8", "9">>

RECURSIVE Digits(_)
Digits(i) ==
    IF i < 10 THEN <<DigitChar[i + 1]>>
    ELSE Digits(i \div 10) \o <<DigitChar[(i % 10) + 1]>>

\* f1.ts .. fn.ts, each with one match of pattern "a".
BulkFiles(n) == [i \in 1..n |-> File(<<"f">> \o Digits(i) \o <<".", "t", "s">>, A, TRUE)]

\* Few files, and enough to fill and to overflow the results of a scan.
BulkCounts == 0..2 \cup (MaxFiles - 3)..MaxFiles

SpecialFiles ==
    { File(<<"m", ".", "j", "s">>, AB, TRUE),
      File(<<"j", ".", "j", "s", "x">>, BA, TRUE),
      File(<<"c", ".", "t", "s", "x">>, NL, TRUE),
      File(<<"u", ".", "t", "s">>, A, FALSE),
      File(<<"t", ".", "t", "e", "s", "t", ".", "t", "s">>, A, TRUE),
      File(<<"n", ".", "m", "d">>, A, TRUE),
      File(<<".", "t", "s">>, B, TRUE) }

\* One directory of many files and a special one, before or after them.
BulkTrees ==
    { Dir(<<>>, IF first THEN <<special>> \o BulkFiles(n) ELSE BulkFiles(n) \o <<special>>, TRUE) :
        n \in BulkCounts, special \in SpecialFiles, first \in BOOLEAN }

DirNames == ExcludedDirs \cup AnalyzerExcludedDirs \cup {<<"s", "r", "c">>}

\* A directory of every name, holding a file with a match directly, one level
\* down, or behind a listing that fails; and a file next to it.
DirTrees ==
    { Dir(<<>>, <<Dir(name, inside, TRUE), File(<<"z", ".", "t", "s">>, A, TRUE)>>, TRUE) :
        name \in DirNames,
        inside \in { <<File(<<"x", ".", "t", "s">>, A, TRUE)>>,
                     <<File(<<"x", ".", "t", "s">>, A, FALSE), File(<<"y", ".", "t", "s">>, B, TRUE)>>,
                     <<Dir(<<"l", "i", "b">>, <<File(<<"x", ".", "t", "s">>, A, TRUE)>>, TRUE)>>,
                     <<Dir(<<"l", "i", "b">>, <<File(<<"x", ".", "t", "s">>, A, TRUE)>>, FALSE)>> } }

Trees == BulkTrees \cup DirTrees

\* Two plain rules; and the same with an exclusion list whose malformed second
\* pattern makes the security check of a file without "ba" throw.
ScanRuleLists ==
    { << Rule("r1", "critical", TRUE, "code", Detection(<<A>>, <<>>, <<>>, excl, <<>>)),
         Rule("r2", "high", TRUE, "code", Detection(<<B>>, <<>>, <<>>, <<>>, <<>>)) >> :
        excl \in {<<>>, <<BA, Bad>>} }

InitScan ==
    /\ \E rules \in ScanRuleLists :
          /\ rulesFile = [f \in {"react-security", "nextjs-security", "accessibility"} |-> rules]
          /\ a11yRules = rules
          /\ sec = [framework |-> "nextjs", rules |-> rules]
    /\ tree \in Trees
    /\ disk = NextProject
    /\ detector = <<ComputeProjectInfo(NextProject)>>
    /\ codeFw = "nextjs"
    /\ file = [code |-> <<>>, path |-> PlainPath]
    /\ last = NoCheck
    /\ scan = NoScan
    /\ fileState = [f \in RuleFileNames |-> "ok"]
    /\ built = "ok"
    /\ reply = NoReply
    /\ disabled = {}
    /\ stale = FALSE
    /\ configFiles = NoConfigFiles
    /\ configCache = <<>>
    /\ away = NextProject
    /\ env = <<>>
    /\ workspace = EmptyTree
    /\ reviewer = <<>>
    /\ calls = <<>>

ScanProject == \E includeTests \in BOOLEAN : AnalyzeProject(includeTests)

ScanDirectory == \E dir \in ScanDirs, includeTests \in BOOLEAN : AnalyzeDirectory(dir, includeTests)

ScanAccessibilityInDirectory == \E dir \in ScanDirs : CheckAccessibilityInDirectory(dir)

ScanSecurityInDirectory == \E dir \in ScanDirs : CheckSecurityInDirectory(dir)

NextScan ==
    \/ AnalyzeProjectSecurity
    \/ AnalyzeProjectAccessibility
    \/ ScanProject
    \/ ScanDirectory
    \/ ScanAccessibilityInDirectory
    \/ ScanSecurityInDirectory

SpecScan == InitScan /\ [][NextScan]_vars

-----------------------------------------------------------------------------
(* Rule management *)

\* this.rules.find(r => r.id === ruleId)
HasRule(rules, ruleId) == \E k \in 1..Len(rules) : rules[k].id = ruleId

FirstWithId(rules, ruleId) ==
    CHOOSE k \in 1..Len(rules) :
        rules[k].id = ruleId /\ \A j \in 1..(k - 1) : rules[j].id # ruleId

\* updateRuleStatus(ruleId, enabled): the rules afterwards (rule.enabled = enabled
\* on the rule found, nothing otherwise); it returns HasRule(rules, ruleId).
UpdateNothing(rules, ruleId, enabled) == rules
UpdateRuleStatus(rules, ruleId, enabled) ==
    IF HasRule(rules, ruleId)
    THEN [rules EXCEPT ![FirstWithId(rules, ruleId)].enabled = enabled]
    ELSE rules

\* getEnabledRules(): this.rules.filter(rule => rule.enabled), as their ids
EnabledIds(rules) == {rules[k].id : k \in {j \in 1..Len(rules) : rules[j].enabled}}

\* The rules switched off on an instance and not switched on again since.
Switched(instance, found, ruleId, enabled) ==
    IF ~found THEN disabled
    ELSE IF enabled THEN disabled \ {<<instance, ruleId>>}
    ELSE disabled \cup {<<instance, ruleId>>}

\* SecurityAnalyzer.updateRuleStatus on the analyzer the checks use
SecurityUpdateRuleStatus(ruleId, enabled) ==
    /\ sec' = [sec EXCEPT !.rules = UpdateRuleStatus(sec.rules, ruleId, enabled)]
    /\ reply' = [op |-> "SecurityAnalyzer.updateRuleStatus", ruleId |-> ruleId,
                 enabled |-> enabled, returned |-> HasRule(sec.rules, ruleId)]
    /\ disabled' = Switched("security", HasRule(sec.rules, ruleId), ruleId, enabled)
    /\ stale' = (stale \/ HasRule(sec.rules, ruleId))
    /\ UNCHANGED <<rulesFile, disk, detector, a11yRules, codeFw, file, last, tree, scan,
                   fileState, built, beside, away, env, workspace, calls, reviewer>>

\* AccessibilityAnalyzer.updateRuleStatus on the analyzer the checks use
AccessibilityUpdateRuleStatus(ruleId, enabled) ==
    /\ a11yRules' = UpdateRuleStatus(a11yRules, ruleId, enabled)
    /\ reply' = [op |-> "AccessibilityAnalyzer.updateRuleStatus", ruleId |-> ruleId,
                 enabled |-> enabled, returned |-> HasRule(a11yRules, ruleId)]
    /\ disabled' = Switched("accessibility", HasRule(a11yRules, ruleId), ruleId, enabled)
    /\ stale' = (stale \/ HasRule(a11yRules, ruleId))
    /\ UNCHANGED <<rulesFile, disk, detector, sec, codeFw, file, last, tree, scan,
                   fileState, built, beside, away, env, workspace, calls, reviewer>>

\* A SecurityAnalyzer as its field initialisers leave it.
NewSecurityAnalyzer == [framework |-> "unknown", rules |-> <<>>]

\* The reply of the manage-security-rules tool over the analyzer it built.
\* ruleId is "" when the caller passes none.
ManageReply(action, ruleId, threw, rules) ==
    [op |-> "manage-security-rules", action |-> action, ruleId |-> ruleId,
     isError |-> \/ threw
                 \/ action # "list" /\ (ruleId = "" \/ ~HasRule(rules, ruleId)),
     rules |-> IF action = "list" /\ ~threw THEN EnabledIds(rules) ELSE {}]

\* The manage-security-rules tool: every call builds a SecurityAnalyzer of its
\* own, whose constructor detects the framework and loads the rule file; the
\* analyzer is dropped when the call returns.
ManageSecurityRules(action, ruleId) ==
    LET info   == DetectFramework(detector, disk)
        loaded == LoadSecurityRules(NewSecurityAnalyzer, info.framework)
        threw  == SecLoadThrows(info.framework)
        found  == ~threw /\ action # "list" /\ ruleId # "" /\ HasRule(loaded.rules, ruleId)
    IN  /\ detector' = <<info>>
        /\ reply' = ManageReply(action, ruleId, threw, loaded.rules)
        /\ disabled' = Switched("manage-security-rules", found, ruleId, action = "enable")
        /\ stale' = (stale \/ found)
        /\ UNCHANGED <<rulesFile, disk, sec, a11yRules, codeFw, file, last, tree, scan,
                       fileState, built, beside, away, env, workspace, calls, reviewer>>

\* `new CodeAnalyzer()`: loadRules, then the two analyzers' constructors.
NewCodeAnalyzer ==
    LET info   == DetectFramework(detector, disk)
        loaded == LoadSecurityRules(NewSecurityAnalyzer, info.framework)
    IN  /\ detector' = <<info>>
        /\ codeFw' = info.framework
        /\ IF CodeLoadThrows(info.framework)
           THEN built' = "threw" /\ UNCHANGED <<sec, a11yRules>>
           ELSE /\ sec' = loaded
                /\ IF SecLoadThrows(info.framework)
                   THEN built' = "threw" /\ UNCHANGED a11yRules
                   ELSE built' = "ok" /\ a11yRules' = LoadAccessibilityRules
        /\ UNCHANGED <<rulesFile, disk, file, last, tree, scan, fileState, reply, disabled, stale, beside, away, env, workspace, calls, reviewer>>

\* ProjectDetector.clearCache
ClearCache ==
    /\ detector' = <<>>
    /\ UNCHANGED <<rulesFile, disk, sec, a11yRules, codeFw, file, last, tree, scan,
                   fileState, built, reply, disabled, stale, beside, away, env, workspace, calls, reviewer>>

ReactProject ==
    [manifest |-> Manifest(Table(<<>>, <<"18">>), NoTable),
     hasApp |-> FALSE, hasPages |-> FALSE]

-----------------------------------------------------------------------------
(* Rule management: analyzers built over the rule files, rules switched on
   the analyzers and through the tool, the project changing *)

\* The rule ids the callers name: a rule of the files and one of no file.
RuleIds == {"r1", "r9"}

\* Two rules that match "a" and "b", the first enabled or not.
AdminRules(e1) ==
    << Rule("r1", "critical", e1, "code", Detection(<<A>>, <<>>, <<>>, <<>>, <<>>)),
       Rule("r2", "high", TRUE, "code", Detection(<<B>>, <<>>, <<>>, <<>>, <<>>)) >>

AdminRuleLists == {AdminRules(e1) : e1 \in BOOLEAN}

\* Every rule file in place, or one of them missing or unparsable.
FileStates ==
    {[f \in RuleFileNames |-> "ok"]}
    \cup {[f \in RuleFileNames |-> IF f = g THEN st ELSE "ok"] :
            g \in RuleFileNames, st \in {"missing", "malformed"}}

AdminProjects == {NextProject, ReactProject}

\* The state before `new CodeAnalyzer()`: nothing detected, nothing loaded.
Unbuilt ==
    /\ \E rules \in AdminRuleLists :
          rulesFile = [f \in {"react-security", "nextjs-security", "accessibility"} |-> rules]
    /\ disk \in AdminProjects
    /\ file = [code |-> AB, path |-> PlainPath]
    /\ detector = <<>>
    /\ sec = NewSecurityAnalyzer
    /\ a11yRules = <<>>
    /\ codeFw = "unknown"
    /\ built = "none"
    /\ last = NoCheck
    /\ tree = EmptyTree
    /\ scan = NoScan
    /\ reply = NoReply
    /\ disabled = {}
    /\ stale = FALSE
    /\ configFiles = NoConfigFiles
    /\ configCache = <<>>
    /\ away = NextProject
    /\ env = <<>>
    /\ workspace = EmptyTree
    /\ reviewer = <<>>
    /\ calls = <<>>

Construct == built = "none" /\ NewCodeAnalyzer

SwitchSecurityRule ==
    /\ built = "ok"
    /\ \E ruleId \in RuleIds, enabled \in BOOLEAN : SecurityUpdateRuleStatus(ruleId, enabled)

SwitchAccessibilityRule ==
    /\ built = "ok"
    /\ \E ruleId \in RuleIds, enabled \in BOOLEAN : AccessibilityUpdateRuleStatus(ruleId, enabled)

ManageRules ==
    \/ ManageSecurityRules("list", "")
    \/ \E action \in {"enable", "disable"}, ruleId \in RuleIds \cup {""} :
          ManageSecurityRules(action, ruleId)

\* The project's manifest is rewritten.
ChangeProject ==
    /\ disk' \in AdminProjects \ {disk}
    /\ UNCHANGED <<rulesFile, detector, sec, a11yRules, codeFw, file, last, tree, scan,
                   fileState, built, reply, disabled, stale, beside, away, env, workspace, calls, reviewer>>

\* Rules switched on the analyzers between file checks, the project changing.
InitRules == Unbuilt /\ fileState = [f \in RuleFileNames |-> "ok"]

NextRules ==
    \/ Construct
    \/ CheckSecurity
    \/ CheckAccessibility
    \/ SwitchSecurityRule
    \/ SwitchAccessibilityRule
    \/ ClearCache
    \/ ChangeProject

SpecRules == InitRules /\ [][NextRules]_vars

\* Rules switched through the manage-security-rules tool between file checks.
InitTool == InitRules

NextTool ==
    \/ Construct
    \/ CheckSecurity
    \/ CheckCode
    \/ ManageRules

SpecTool == InitTool /\ [][NextTool]_vars

\* Analyzers built and used over rule files in every state.
InitBuild == Unbuilt /\ fileState \in FileStates

NextBuild ==
    \/ Construct
    \/ CheckSecurity
    \/ CheckAccessibility
    \/ CheckCode
    \/ ManageRules
    \/ ClearCache
    \/ ChangeProject

SpecBuild == InitBuild /\ [][NextBuild]_vars

-----------------------------------------------------------------------------
(* ConfigManager *)

\* A parsed JSON value is an array, an object (a function of its keys) or a
\* scalar.
JArray(v) == [t |-> "array", v |-> v]
JObject(v) == [t |-> "object", v |-> v]
JScalar(v) == [t |-> "scalar", v |-> v]

EmptyObject == [key \in {} |-> JScalar(0)]

\* The body of the reduce of deepMerge: Object.keys(obj).forEach over prev.
\* Two arrays are concatenated, two objects merged, anything else replaced.
RECURSIVE MergeInto(_, _)
MergeInto(prev, obj) ==
    [key \in DOMAIN prev \cup DOMAIN obj |->
        IF key \notin DOMAIN obj THEN prev[key]
        ELSE IF key \notin DOMAIN prev THEN obj[key]
        ELSE IF prev[key].t = "array" /\ obj[key].t = "array"
        THEN JArray(prev[key].v \o obj[key].v)
        ELSE IF prev[key].t = "object" /\ obj[key].t = "object"
        THEN JObject(MergeInto(MergeInto(EmptyObject, prev[key].v), obj[key].v))
        ELSE obj[key]]

\* The same with the later array replacing the earlier one.
MergeReplacing(prev, obj) ==
    [key \in DOMAIN prev \cup DOMAIN obj |-> IF key \in DOMAIN obj THEN obj[key] ELSE prev[key]]

\* deepMerge(...objects): objects.reduce(..., {})
RECURSIVE DeepMergeFrom(_, _)
DeepMergeFrom(prev, objects) ==
    IF objects = <<>> THEN prev
    ELSE DeepMergeFrom(MergeInto(prev, Head(objects)), Tail(objects))

DeepMerge(objects) == DeepMergeFrom(EmptyObject, objects)

\* loadUserConfig, loadProjectConfig, getPresetOverrides: the parsed file, or
\* {} for a file that is missing or does not parse (files[name] = <<>>).
LoadOptional(files, name) == IF files[name] = <<>> THEN EmptyObject ELSE files[name][1]

\* loadConfig with nothing cached: default < user < preset < project.  The
\* default file is required.
MergedConfig(files) ==
    DeepMerge(<<files["default"][1], LoadOptional(files, "user"),
                LoadOptional(files, "preset"), LoadOptional(files, "project")>>)

LoadDefaultThrows(files) == files["default"] = <<>>

\* loadConfig: the cached object if there is one.
LoadConfig(cache, files) == IF cache # <<>> THEN cache[1] ELSE MergedConfig(files)

\* if (config.securityRules)
HasSecurityRules(config) == "securityRules" \in DOMAIN config

\* getRule: <<rule>>, or <<>> for undefined and null
GetRule(config, ruleId) ==
    IF HasSecurityRules(config) /\ HasRule(config["securityRules"].v, ruleId)
    THEN <<config["securityRules"].v[FirstWithId(config["securityRules"].v, ruleId)]>>
    ELSE <<>>

\* getEnabledRules: config.securityRules.filter(rule => rule.enabled !== false)
GetEnabledRules(config) ==
    IF HasSecurityRules(config)
    THEN SelectSeq(config["securityRules"].v, LAMBDA rule : rule.enabled # FALSE)
    ELSE <<>>

\* updateRule(configName, ruleId, {enabled}): the config afterwards
UpdateRule(config, ruleId, enabled) ==
    IF HasSecurityRules(config) /\ HasRule(config["securityRules"].v, ruleId)
    THEN [config EXCEPT !["securityRules"] =
            JArray([config["securityRules"].v EXCEPT
                      ![FirstWithId(config["securityRules"].v, ruleId)].enabled = enabled])]
    ELSE config

\* updateRule saves the merged config as the project's file when it found the rule.
UpdateSaves(config, ruleId) ==
    HasSecurityRules(config) /\ HasRule(config["securityRules"].v, ruleId)

ThrewReply(op) == [op |-> op, threw |-> TRUE]

\* configManager.loadConfig(configName)
ConfigLoad ==
    /\ IF configCache = <<>> /\ LoadDefaultThrows(configFiles)
       THEN reply' = ThrewReply("ConfigManager.loadConfig") /\ UNCHANGED configCache
       ELSE /\ configCache' = <<LoadConfig(configCache, configFiles)>>
            /\ reply' = [op |-> "ConfigManager.loadConfig", threw |-> FALSE,
                         config |-> LoadConfig(configCache, configFiles)]
    /\ UNCHANGED <<engine, configFiles>>

\* configManager.getRule(configName, ruleId)
ConfigGetRule(ruleId) ==
    /\ IF configCache = <<>> /\ LoadDefaultThrows(configFiles)
       THEN reply' = ThrewReply("ConfigManager.getRule") /\ UNCHANGED configCache
       ELSE /\ configCache' = <<LoadConfig(configCache, configFiles)>>
            /\ reply' = [op |-> "ConfigManager.getRule", threw |-> FALSE, ruleId |-> ruleId,
                         rule |-> GetRule(LoadConfig(configCache, configFiles), ruleId)]
    /\ UNCHANGED <<engine, configFiles>>

\* configManager.getEnabledRules(configName)
ConfigGetEnabledRules ==
    /\ IF configCache = <<>> /\ LoadDefaultThrows(configFiles)
       THEN reply' = ThrewReply("ConfigManager.getEnabledRules") /\ UNCHANGED configCache
       ELSE /\ configCache' = <<LoadConfig(configCache, configFiles)>>
            /\ reply' = [op |-> "ConfigManager.getEnabledRules", threw |-> FALSE,
                         rules |-> GetEnabledRules(LoadConfig(configCache, configFiles))]
    /\ UNCHANGED <<engine, configFiles>>

\* configManager.toggleRule(configName, ruleId, enabled): it returns nothing.
ConfigToggleRule(ruleId, enabled) ==
    /\ IF configCache = <<>> /\ LoadDefaultThrows(configFiles)
       THEN /\ reply' = ThrewReply("ConfigManager.toggleRule")
            /\ UNCHANGED <<configCache, configFiles>>
       ELSE /\ configCache' = <<UpdateRule(LoadConfig(configCache, configFiles), ruleId, enabled)>>
            /\ configFiles' =
                  IF UpdateSaves(LoadConfig(configCache, configFiles), ruleId)
                  THEN [configFiles EXCEPT !["project"] =
                          <<UpdateRule(LoadConfig(configCache, configFiles), ruleId, enabled)>>]
                  ELSE configFiles
            /\ reply' = [op |-> "ConfigManager.toggleRule", threw |-> FALSE, ruleId |-> ruleId,
                         enabled |-> enabled, returned |-> "undefined"]
    /\ UNCHANGED engine

\* configManager.clearCache()
ConfigClearCache ==
    /\ configCache' = <<>>
    /\ UNCHANGED <<engine, configFiles, reply>>

-----------------------------------------------------------------------------
(* The configuration manager over a default file and its overrides *)

ConfigRule(id, enabled, severity) == [id |-> id, enabled |-> enabled, severity |-> severity]

\* An override entry carries the id and the flag it overrides.
OverrideRule(id, enabled) == [id |-> id, enabled |-> enabled]

Options(strict, depth) == JObject([key \in {"strict", "depth"} |->
                                     IF key = "strict" THEN JScalar(strict) ELSE JScalar(depth)])

DefaultConfigs ==
    { [key \in {"version", "options", "securityRules"} |->
         IF key = "version" THEN JScalar("1")
         ELSE IF key = "options" THEN Options(TRUE, 1)
         ELSE JArray(<<ConfigRule("r1", e1, "critical"), ConfigRule("r2", TRUE, "high")>>)] :
        e1 \in BOOLEAN }

OverrideConfigs ==
    { [key \in {"securityRules"} |-> JArray(<<OverrideRule("r1", e1)>>)] : e1 \in BOOLEAN }
    \cup { [key \in {"securityRules"} |-> JArray(<<OverrideRule("r3", TRUE)>>)],
           [key \in {"options"} |-> JObject([k \in {"strict"} |-> JScalar(FALSE)])],
           [key \in {"version"} |-> JScalar("2")] }

\* Each optional file is absent (or unparsable) or holds an override.
ConfigFileSets ==
    { [name \in {"default", "user", "preset", "project"} |->
         IF name = "default" THEN default
         ELSE IF name = "user" THEN user
         ELSE IF name = "preset" THEN preset
         ELSE project] :
        default \in {<<>>} \cup {<<d>> : d \in DefaultConfigs},
        user \in {<<>>, <<[key \in {"securityRules"} |-> JArray(<<OverrideRule("r2", FALSE)>>)]>>},
        preset \in {<<>>, <<[key \in {"options"} |-> JObject([k \in {"depth"} |-> JScalar(2)])]>>},
        project \in {<<>>} \cup {<<o>> : o \in OverrideConfigs} }

\* Analyzers built over a rule list, nothing loaded by the configuration manager.
InitConfig ==
    /\ rulesFile = [f \in {"react-security", "nextjs-security", "accessibility"} |-> AdminRules(TRUE)]
    /\ a11yRules = AdminRules(TRUE)
    /\ sec = [framework |-> "nextjs", rules |-> AdminRules(TRUE)]
    /\ file = [code |-> AB, path |-> PlainPath]
    /\ disk = NextProject
    /\ detector = <<ComputeProjectInfo(NextProject)>>
    /\ codeFw = "nextjs"
    /\ last = NoCheck
    /\ tree = EmptyTree
    /\ scan = NoScan
    /\ fileState = [f \in RuleFileNames |-> "ok"]
    /\ built = "ok"
    /\ reply = NoReply
    /\ disabled = {}
    /\ stale = FALSE
    /\ configFiles \in ConfigFileSets
    /\ configCache = <<>>
    /\ away = NextProject
    /\ env = <<>>
    /\ workspace = EmptyTree
    /\ reviewer = <<>>
    /\ calls = <<>>

GetConfigRule == \E ruleId \in RuleIds : ConfigGetRule(ruleId)

\* Every save writes the merged rules back as the project's override, which the
\* next load merges again: the calls are followed while the list is short.
MaxConfigRules == 4

ConfigRulesWithin ==
    IF configCache = <<>> /\ LoadDefaultThrows(configFiles) THEN TRUE
    ELSE IF ~HasSecurityRules(LoadConfig(configCache, configFiles)) THEN TRUE
    ELSE Len(LoadConfig(configCache, configFiles)["securityRules"].v) <= MaxConfigRules

ToggleConfigRule ==
    /\ ConfigRulesWithin
    /\ \E ruleId \in RuleIds, enabled \in BOOLEAN : ConfigToggleRule(ruleId, enabled)

NextConfig ==
    \/ ConfigLoad
    \/ GetConfigRule
    \/ ConfigGetEnabledRules
    \/ ToggleConfigRule
    \/ ConfigClearCache

SpecConfig == InitConfig /\ [][NextConfig]_vars

\* Rules switched through each of the three interfaces.
NextSwitch ==
    \/ SwitchSecurityRule
    \/ SwitchAccessibilityRule
    \/ ManageRules
    \/ ToggleConfigRule

InitSwitch == InitConfig /\ configFiles["user"] = <<>> /\ configFiles["preset"] = <<>>

SpecSwitch == InitSwitch /\ [][NextSwitch]_vars

-----------------------------------------------------------------------------
(* ProjectDetector calls *)

\* const root = projectRoot || process.cwd(): <<>> when no root is passed
ProjectAt(root) == IF root = <<>> THEN disk ELSE away

\* projectDetector.detectFramework(projectRoot).  The reply keeps what the
\* call found: whether a profile was cached, and the project under its root.
DetectFrameworkCall(root) ==
    /\ detector' = <<DetectFramework(detector, ProjectAt(root))>>
    /\ reply' = [op |-> "detectFramework", root |-> root, cached |-> detector # <<>>,
                 project |-> ProjectAt(root),
                 info |-> DetectFramework(detector, ProjectAt(root))]
    /\ UNCHANGED <<rulesFile, disk, sec, a11yRules, codeFw, file, last, tree, scan,
                   fileState, built, disabled, stale, beside, away, env, workspace, calls, reviewer>>

\* projectDetector.detectFrameworkForFile(filePath, projectRoot)
DetectFrameworkForFileCall(filePath, root) ==
    /\ detector' = <<DetectFramework(detector, ProjectAt(root))>>
    /\ reply' = [op |-> "detectFrameworkForFile", root |-> root, cached |-> detector # <<>>,
                 project |-> ProjectAt(root), filePath |-> filePath,
                 info |-> DetectFramework(detector, ProjectAt(root)),
                 framework |-> DetectFrameworkForFile(DetectFramework(detector, ProjectAt(root)),
                                                      filePath)]
    /\ UNCHANGED <<rulesFile, disk, sec, a11yRules, codeFw, file, last, tree, scan,
                   fileState, built, disabled, stale, beside, away, env, workspace, calls, reviewer>>

-----------------------------------------------------------------------------
(* The detector over manifests of every shape, the project changing *)

\* No entry, a version, the empty version.
Entries == {<<>>, <<"14">>, <<"">>}

Tables == {Table(next, react) : next \in Entries, react \in Entries}

Manifests ==
    {Manifest(dependencies, devDependencies) : dependencies \in Tables, devDependencies \in Tables}
    \cup {[state |-> st, dependencies |-> NoTable, devDependencies |-> NoTable] :
            st \in {"missing", "unparsable", "null"}}

Project(manifest, hasApp, hasPages) ==
    [manifest |-> manifest, hasApp |-> hasApp, hasPages |-> hasPages]

\* Every manifest in a project with an app directory; the router directories
\* in every combination next to a Next.js manifest and next to none.
DetectProjects ==
    {Project(m, TRUE, FALSE) : m \in Manifests}
    \cup {Project(m, hasApp, hasPages) :
            m \in {NextProject.manifest, [state |-> "missing", dependencies |-> NoTable,
                                          devDependencies |-> NoTable]},
            hasApp \in BOOLEAN, hasPages \in BOOLEAN}

AwayProjects == {NextProject, ReactProject}

Backslash == "\\"

FilePaths ==
    { PlainPath,
      <<"/", "a", "p", "p", "/", "x", ".", "j">>,
      <<"c", "/", "p", "a", "g", "e", "s", "/", "x", ".", "j">>,
      <<"c", Backslash, "a", "p", "p", Backslash, "x", ".", "j">>,
      <<"c", "/", "p", "a", "g", "e", ".", "t", "s", "x">>,
      <<"c", "/", "r", "o", "u", "t", "e", ".", "j", "s">>,
      <<"c", "/", "a", "p", "p", ".", "t", "s">>,
      <<"p", "a", "g", "e", ".", "t", "s">> }

InitDetect ==
    /\ rulesFile = [f \in {"react-security", "nextjs-security", "accessibility"} |-> AdminRules(TRUE)]
    /\ a11yRules = <<>>
    /\ sec = NewSecurityAnalyzer
    /\ file = [code |-> AB, path |-> PlainPath]
    /\ disk \in DetectProjects
    /\ detector = <<>>
    /\ codeFw = "unknown"
    /\ last = NoCheck
    /\ tree = EmptyTree
    /\ scan = NoScan
    /\ fileState = [f \in RuleFileNames |-> "ok"]
    /\ built = "none"
    /\ reply = NoReply
    /\ disabled = {}
    /\ stale = FALSE
    /\ configFiles = NoConfigFiles
    /\ configCache = <<>>
    /\ away \in AwayProjects
    /\ env = <<>>
    /\ workspace = EmptyTree
    /\ reviewer = <<>>
    /\ calls = <<>>

Roots == {<<>>, <<"away">>}

Detect == \E root \in Roots : DetectFrameworkCall(root)

DetectForFile == \E filePath \in FilePaths, root \in Roots : DetectFrameworkForFileCall(filePath, root)

NextDetect ==
    \/ Detect
    \/ DetectForFile
    \/ ClearCache
    \/ ChangeProject

SpecDetect == InitDetect /\ [][NextDetect]_vars

-----------------------------------------------------------------------------
(* Properties of the rule engine *)

FileChecked == last.op \in {"security", "accessibility"}

\* Some well-formed entry of the list matches somewhere in the text.
AnyMatches(pats, code) ==
    \E k \in 1..Len(pats) : ValidRegex(pats[k]) /\ RegexTest(pats[k], code)

\* The matches of every well-formed entry of patterns, in the order of the scan.
RECURSIVE AllMatches(_, _)
AllMatches(patterns, code) ==
    IF patterns = <<>> THEN <<>>
    ELSE (IF ValidRegex(Head(patterns)) THEN ScanMatches(Head(patterns), code, 0) ELSE <<>>)
         \o AllMatches(Tail(patterns), code)

\* C1: a file check yields no issue and no ruleResults entry for a rule whose
\* enabled flag is false, whatever its patterns match.
C1_DisabledRuleSilent ==
    FileChecked =>
        \A k \in 1..Len(last.rules) :
            ~last.rules[k].enabled =>
                /\ \A i \in 1..Len(last.issues) : last.issues[i].code # last.rules[k].id
                /\ \A j \in 1..Len(last.ruleResults) :
                       last.ruleResults[j].rule.id # last.rules[k].id

\* A security check over a disabled rule whose pattern matches the text, next
\* to an enabled rule that reported.
C1_Witness ==
    /\ last.op = "security"
    /\ \E k \in 1..Len(last.rules) :
          /\ ~last.rules[k].enabled
          /\ AllMatches(last.rules[k].detection.patterns, file.code) # <<>>
    /\ last.issues # <<>>

\* C2: a rule one of whose excludePatterns matches the text yields no
\* violation, and none of its patterns is compiled (no warning is logged for
\* it): the exclusion test comes first.
C2_ExclusionFirst ==
    FileChecked =>
        /\ \A j \in 1..Len(last.ruleResults) :
              AnyMatches(last.ruleResults[j].rule.detection.excludePatterns, file.code)
                  => last.ruleResults[j].violations = <<>>
        /\ \A k \in 1..Len(last.rules), w \in 1..Len(last.warnings) :
              AnyMatches(last.rules[k].detection.excludePatterns, file.code)
                  => last.warnings[w].rule # last.rules[k].id

\* A check of a rule that is excluded although a pattern of it matches and
\* another is malformed.
C2_Witness ==
    /\ last.op = "security"
    /\ ~last.threw
    /\ \E j \in 1..Len(last.ruleResults) :
          LET det == last.ruleResults[j].rule.detection
          IN  /\ AnyMatches(det.excludePatterns, file.code)
              /\ AllMatches(det.patterns, file.code) # <<>>
              /\ \E k \in 1..Len(det.patterns) : ~ValidRegex(det.patterns[k])

\* C3: a rule with requirePatterns yields no violation when none of them
\* matches the text, and reports every match of its patterns when one does
\* and no exclude or absence pattern matches.
C3_RequirementGating ==
    FileChecked /\ ~last.threw =>
        \A j \in 1..Len(last.ruleResults) :
            LET det == last.ruleResults[j].rule.detection
            IN  det.requirePatterns # <<>> =>
                  /\ ~AnyMatches(det.requirePatterns, file.code)
                        => last.ruleResults[j].violations = <<>>
                  /\ ( /\ AnyMatches(det.requirePatterns, file.code)
                       /\ ~AnyMatches(det.excludePatterns, file.code)
                       /\ ~AnyMatches(det.requireAbsence, file.code) )
                        => last.ruleResults[j].violations =
                             ViolationsAt(last.ruleResults[j].rule, file.code,
                                          AllMatches(det.patterns, file.code))

\* C4: a rule one of whose requireAbsence patterns matches the text yields no
\* violation, also when its requirePatterns are satisfied.
C4_AbsenceDominates ==
    FileChecked =>
        \A j \in 1..Len(last.ruleResults) :
            AnyMatches(last.ruleResults[j].rule.detection.requireAbsence, file.code)
                => last.ruleResults[j].violations = <<>>

\* A check of a rule whose pattern matches, whose requirePatterns are
\* satisfied, which is not excluded, and whose requireAbsence matches.
C4_Witness ==
    /\ last.op = "security"
    /\ ~last.threw
    /\ \E j \in 1..Len(last.ruleResults) :
          LET det == last.ruleResults[j].rule.detection
          IN  /\ AnyMatches(det.requireAbsence, file.code)
              /\ AnyMatches(det.requirePatterns, file.code)
              /\ ~AnyMatches(det.excludePatterns, file.code)
              /\ AllMatches(det.patterns, file.code) # <<>>

\* The rule without the malformed entries of its patterns.
RECURSIVE WellFormed(_)
WellFormed(patterns) ==
    IF patterns = <<>> THEN <<>>
    ELSE (IF ValidRegex(Head(patterns)) THEN <<Head(patterns)>> ELSE <<>>)
         \o WellFormed(Tail(patterns))

WithoutMalformed(rules) ==
    [k \in 1..Len(rules) |->
        [rules[k] EXCEPT !.detection.patterns = WellFormed(rules[k].detection.patterns)]]

ViolationsPerRule(run) == [j \in 1..Len(run.ruleResults) |-> run.ruleResults[j].violations]

\* C5: a malformed entry of patterns counts as zero matches for that entry
\* only: the check reports, for the rule and for every other rule, what it
\* reports for the rule list with the malformed entries removed.
C5_MalformedPatternSkipped ==
    /\ last.op = "security" =>
          LET clean == SecRunRules(file.code, file.path, WithoutMalformed(last.rules))
          IN  /\ last.threw = clean.threw
              /\ last.issues = clean.issues
              /\ ViolationsPerRule(last) = ViolationsPerRule(clean)
    /\ last.op = "accessibility" =>
          LET clean == A11yRunRules(file.code, file.path, WithoutMalformed(last.rules))
          IN  /\ last.issues = clean.issues
              /\ ViolationsPerRule(last) = ViolationsPerRule(clean)

\* A check of a rule with a malformed entry before an entry that reported.
C5_Witness ==
    /\ last.op = "security"
    /\ \E j \in 1..Len(last.ruleResults) :
          LET pats == last.ruleResults[j].rule.detection.patterns
          IN  /\ last.ruleResults[j].violations # <<>>
              /\ \E k \in 1..Len(pats) : k < Len(pats) /\ ~ValidRegex(pats[k])
    /\ \E j \in 1..Len(last.ruleResults) :
          /\ last.ruleResults[j].rule.id = "r2"
          /\ last.ruleResults[j].violations # <<>>

-----------------------------------------------------------------------------
(* Properties of the score *)

Scored == last.op \in {"security", "code"} /\ ~last.threw

\* The reported violations of the rules of one severity: the issues that
\* carry the id of such a rule.
ViolationsOfSeverity(severity) ==
    Cardinality({i \in 1..Len(last.issues) :
        \E k \in 1..Len(last.rules) :
            /\ last.rules[k].id = last.issues[i].code
            /\ last.rules[k].severity = severity})

\* Every reported issue is the violation of a rule.
OnlyRuleViolations ==
    \A i \in 1..Len(last.issues) :
        \E k \in 1..Len(last.rules) : last.rules[k].id = last.issues[i].code

\* C6: the score of a security check and of a code analysis is
\* max(0, 100 - 20c - 10h - 5m) for c critical, h high and m medium violations
\* (stated where every issue is a rule violation, so that c, h and m count
\* all of them).
C6_ScoreFormula ==
    Scored /\ OnlyRuleViolations =>
        last.score = Max(0, 100 - 20 * ViolationsOfSeverity("critical")
                                - 10 * ViolationsOfSeverity("high")
                                - 5 * ViolationsOfSeverity("medium"))

\* The issues at the positions in S, in order.
RECURSIVE Pick(_, _, _)
Pick(issues, S, k) ==
    IF k > Len(issues) THEN <<>>
    ELSE (IF k \in S THEN <<issues[k]>> ELSE <<>>) \o Pick(issues, S, k + 1)

ScoreOf(op, issues) == IF op = "security" THEN SecurityScore(issues) ELSE CodeScore(issues)

\* C7: the score lies in 0..100, and the score of any part of the reported
\* issues is at least the score of them all.
C7_ScoreBoundedMonotone ==
    Scored =>
        /\ last.score \in 0..100
        /\ \A S \in SUBSET (1..Len(last.issues)) :
               ScoreOf(last.op, Pick(last.issues, S, 1)) >= last.score

\* A security check whose penalties exceed 100: the floor applies.
C7_Witness ==
    /\ last.op = "security"
    /\ ~last.threw
    /\ CountType(last.issues, "error") >= 6
    /\ last.score = 0

-----------------------------------------------------------------------------
(* Properties of the scanners *)

\* A scan has run and returned its result object.
ScanReturned == scan.op # "none" /\ ~scan.threw

\* The checked files with at least one issue, in traversal order.
Qualifying == SelectSeq(scan.evaluated, LAMBDA c : c.issues > 0)

\* C8: the results of every project- or directory-level scan are the first
\* min(50, q) of the q files with at least one issue, in traversal order,
\* while filesWithIssues and the total of violations count all q of them.
C8_ResultsCapped ==
    ScanReturned =>
        /\ Len(scan.results) = Min(50, Len(Qualifying))
        /\ scan.results = SubSeq(Qualifying, 1, Len(scan.results))
        /\ scan.filesWithIssues = Len(Qualifying)
        /\ scan.totalViolations = Total(Qualifying, "issues")

\* A scan that cut files with issues from its results.
C8_Witness ==
    /\ ScanReturned
    /\ Len(Qualifying) > 50
    /\ Len(scan.results) = 50
    /\ scan.filesWithIssues > 50
    /\ scan.totalViolations > Total(scan.results, "issues")

\* The path, below the directory the scan was pointed at, crosses a directory
\* of the denylist.
UnderExcludedDir(root, path) ==
    \E name \in ExcludedDirs :
        Includes(SubSeq(path, Len(root) + 1, Len(path)), <<"/">> \o name \o <<"/">>)

\* C9: no scan evaluates a file under a directory named node_modules, .git,
\* build, dist, .next, coverage, .cache, .turbo, .nuxt, .output, out, .history
\* or .vscode.
C9_DenylistHonoured ==
    \A k \in 1..Len(scan.evaluated) : ~UnderExcludedDir(scan.root, scan.evaluated[k].file)

\* C10: a file whose read or check fails is skipped without a result entry,
\* every other file found is still evaluated, and the scan returns.
C10_FileErrorsSkipped ==
    scan.op # "none" =>
        /\ ~scan.threw
        /\ \A k \in 1..Len(scan.found) :
              \/ \E j \in 1..Len(scan.failed) : scan.failed[j].file = scan.found[k]
              \/ \E j \in 1..Len(scan.evaluated) : scan.evaluated[j].file = scan.found[k]
        /\ \A k \in 1..Len(scan.results), j \in 1..Len(scan.failed) :
              scan.results[k].file # scan.failed[j].file

-----------------------------------------------------------------------------
(* Whole-project scans under WORKSPACE_ROOT *)

WorkspaceRoot == <<"/", "v">>

\* The directory WORKSPACE_ROOT names holds other files than the working
\* directory.
WorkspaceTrees ==
    { Dir(<<>>, <<File(<<"v", ".", "t", "s">>, text, readable)>> \o more, TRUE) :
        text \in {A, B}, readable \in BOOLEAN,
        more \in { <<>>, <<File(<<"u", ".", "t", "s", "x">>, A, TRUE)>> } }

Walks == {"reviewProject", "optimizeProject", "findRepeatedCodeInProject"}

InitRoot ==
    /\ \E rules \in ScanRuleLists :
          /\ rulesFile = [f \in {"react-security", "nextjs-security", "accessibility"} |-> rules]
          /\ a11yRules = rules
          /\ sec = [framework |-> "nextjs", rules |-> rules]
    /\ tree \in DirTrees
    /\ workspace \in WorkspaceTrees
    /\ reviewer = <<>>
    /\ calls = <<>>
    /\ env \in {<<>>, <<WorkspaceRoot>>}
    /\ disk = NextProject
    /\ detector = <<ComputeProjectInfo(NextProject)>>
    /\ codeFw = "nextjs"
    /\ file = [code |-> <<>>, path |-> PlainPath]
    /\ last = NoCheck
    /\ scan = NoScan
    /\ fileState = [f \in RuleFileNames |-> "ok"]
    /\ built = "ok"
    /\ reply = NoReply
    /\ disabled = {}
    /\ stale = FALSE
    /\ configFiles = NoConfigFiles
    /\ configCache = <<>>
    /\ away = NextProject

Walk == \E op \in Walks : WalkProject(op)

NextRoot ==
    \/ ScanProject
    \/ Walk
    \/ AnalyzeProjectSecurity
    \/ AnalyzeProjectAccessibility

SpecRoot == InitRoot /\ [][NextRoot]_vars

-----------------------------------------------------------------------------
(* Properties of rule management *)

\* The issues of the last check that carry a rule's id.
IssuesOf(ruleId) == SelectSeq(last.issues, LAMBDA issue : issue.code = ruleId)

\* The issues a rule yields on the file when checked alone.
IssuesAlone(op, rule) ==
    IF op = "security" THEN SecRunRules(file.code, file.path, <<rule>>).issues
    ELSE A11yRunRules(file.code, file.path, <<rule>>).issues

\* The last check ran on an analyzer after the last switch of a rule.
CheckedSince == last.op \in {"security", "accessibility"} /\ ~stale /\ ~last.threw

\* C11: after updateRuleStatus(R, false) returned true on an analyzer, a file
\* check of that analyzer made before R is enabled again reports no issue of
\* R, and for every other enabled rule the issues that rule yields by itself.
C11_DisabledUntilReenabled ==
    CheckedSince =>
        \A ruleId \in RuleIds :
            <<last.op, ruleId>> \in disabled =>
                /\ IssuesOf(ruleId) = <<>>
                /\ \A k \in 1..Len(last.rules) :
                       last.rules[k].id # ruleId /\ last.rules[k].enabled =>
                           IssuesOf(last.rules[k].id) = IssuesAlone(last.op, last.rules[k])

\* C12: after manage-security-rules disabled R successfully, a later
\* check-security reports no issue of R and a later 'list' does not show R as
\* enabled, until R is enabled through the tool.
C12_ToolDisableLasts ==
    \A ruleId \in RuleIds :
        <<"manage-security-rules", ruleId>> \in disabled =>
            /\ (last.op = "security" /\ ~stale /\ ~last.threw) => IssuesOf(ruleId) = <<>>
            /\ (reply.op = "manage-security-rules" /\ reply.action = "list" /\ ~reply.isError)
                  => ruleId \notin reply.rules

\* The id that no rule file and no configuration file holds.
UnknownId == "r9"

\* The reply of a call that enables or disables the unknown id.
UnknownSwitch(r) ==
    \/ /\ r.op \in {"SecurityAnalyzer.updateRuleStatus", "AccessibilityAnalyzer.updateRuleStatus"}
       /\ r.ruleId = UnknownId
    \/ /\ r.op = "manage-security-rules"
       /\ r.action \in {"enable", "disable"}
       /\ r.ruleId = UnknownId
    \/ /\ r.op = "ConfigManager.toggleRule"
       /\ ~r.threw
       /\ r.ruleId = UnknownId

\* The reply says that the call failed: updateRuleStatus returned false, the
\* tool replied isError, toggleRule returned false.
ReportsFailure(r) ==
    IF r.op = "manage-security-rules" THEN r.isError
    ELSE IF r.op = "ConfigManager.toggleRule" THEN r.returned = "false"
    ELSE ~r.returned

\* The enabled flags of the analyzers' rules and of the configuration.
Flags(secRules, accRules, cache, files) ==
    <<[k \in 1..Len(secRules) |-> secRules[k].enabled],
      [k \in 1..Len(accRules) |-> accRules[k].enabled],
      IF cache = <<>> /\ LoadDefaultThrows(files) THEN <<>>
      ELSE IF ~HasSecurityRules(LoadConfig(cache, files)) THEN <<>>
      ELSE [k \in 1..Len(LoadConfig(cache, files)["securityRules"].v) |->
              LoadConfig(cache, files)["securityRules"].v[k].enabled]>>

\* C13: a call that enables or disables a rule id nobody knows reports a
\* failure (a false return or an isError reply) and changes no enabled flag.
C13_UnknownIdReported ==
    [][UnknownSwitch(reply') =>
          /\ ReportsFailure(reply')
          /\ Flags(sec'.rules, a11yRules', configCache', configFiles')
               = Flags(sec.rules, a11yRules, configCache, configFiles)]_vars

\* C15: with a rule file missing or unparsable, the constructors do not throw,
\* the analyzer that reads the file has no rules, and its checks return no
\* issue.
C15_BuildDegrades ==
    /\ built # "threw"
    /\ (reply.op = "manage-security-rules" /\ reply.action = "list") => ~reply.isError
    /\ (built = "ok" /\ fileState[SecurityRulesFileName(sec.framework)] # "ok") =>
           /\ sec.rules = <<>>
           /\ (last.op = "security" => (~last.threw /\ last.issues = <<>>))
    /\ (built = "ok" /\ fileState["accessibility"] # "ok") =>
           /\ a11yRules = <<>>
           /\ (last.op = "accessibility" => (~last.threw /\ last.issues = <<>>))
    /\ (built = "ok" /\ fileState[BestPracticesFileName(codeFw)] # "ok") =>
           (last.op = "code" => ~last.threw)

-----------------------------------------------------------------------------
(* Properties of the configuration manager *)

\* The rules a configuration file holds.
FileRules(name) ==
    IF configFiles[name] = <<>> THEN <<>>
    ELSE IF ~HasSecurityRules(configFiles[name][1]) THEN <<>>
    ELSE configFiles[name][1]["securityRules"].v

\* The project's file overrides the enabled flag of a default rule.
Overrides(ruleId) ==
    /\ configFiles \in ConfigFileSets
    /\ HasRule(FileRules("default"), ruleId)
    /\ HasRule(FileRules("project"), ruleId)
    /\ FileRules("project")[FirstWithId(FileRules("project"), ruleId)].enabled
         # FileRules("default")[FirstWithId(FileRules("default"), ruleId)].enabled

OverrideEnables(ruleId) == FileRules("project")[FirstWithId(FileRules("project"), ruleId)].enabled

\* C14: when the project's file overrides the enabled flag of a default rule,
\* getRule returns the rule with the project's flag, and getEnabledRules has
\* no enabled rule of that id when the project disables it.
C14_OverrideWins ==
    \A ruleId \in RuleIds :
        Overrides(ruleId) =>
            /\ (reply.op = "ConfigManager.getRule" /\ reply.ruleId = ruleId) =>
                   /\ reply.rule # <<>>
                   /\ reply.rule[1].enabled = OverrideEnables(ruleId)
            /\ (reply.op = "ConfigManager.getEnabledRules" /\ ~OverrideEnables(ruleId)) =>
                   \A k \in 1..Len(reply.rules) :
                       reply.rules[k].id = ruleId => reply.rules[k].enabled = FALSE

-----------------------------------------------------------------------------
(* Properties of the detector *)

\* The manifest lists the package among its dependencies or devDependencies.
Present(m, name) == m.dependencies[name] # <<>> \/ m.devDependencies[name] # <<>>

\* The last call was a detectFramework that found no cached profile.
FreshDetect == reply.op = "detectFramework" /\ ~reply.cached

\* C16: with nothing cached and a manifest that reads, detectFramework returns
\* nextjs when 'next' is listed (with or without 'react'), react when 'react'
\* is listed and 'next' is not, unknown otherwise.
C16_NextBeforeReact ==
    (FreshDetect /\ reply.project.manifest.state = "ok") =>
        reply.info.framework =
            IF Present(reply.project.manifest, "next") THEN "nextjs"
            ELSE IF Present(reply.project.manifest, "react") THEN "react"
            ELSE "unknown"

DetectStep == reply' # reply /\ reply'.op \in {"detectFramework", "detectFrameworkForFile"}

\* C18: a call made while a profile is cached is answered with that profile
\* and leaves it cached, whatever the root and the manifest; only clearCache
\* drops it; a call made with nothing cached computes the profile from the
\* project under its root and caches it.
C18_CachedUntilCleared ==
    [][/\ DetectStep =>
            IF detector # <<>>
            THEN reply'.info = detector[1] /\ detector' = detector
            ELSE /\ reply'.info = ComputeProjectInfo(reply'.project)
                 /\ detector' = <<reply'.info>>
       /\ (detector # <<>> /\ detector' # detector) => detector' = <<>> /\ reply' = reply]_vars

\* A call answered from the cache with a profile that the project under its
\* root no longer has.
C18_Witness ==
    /\ reply.op \in {"detectFramework", "detectFrameworkForFile"}
    /\ reply.cached
    /\ reply.info # ComputeProjectInfo(reply.project)
    /\ detector = <<reply.info>>

\* C19: detectFrameworkForFile returns nextjs for a file of a Next.js project
\* under app/ or pages/ or with a special basename, and the project's
\* framework for every other file and for every other project.
C19_FileFramework ==
    reply.op = "detectFrameworkForFile" =>
        reply.framework =
            IF reply.info.framework = "nextjs" /\ InNextFolder(reply.filePath) THEN "nextjs"
            ELSE reply.info.framework

\* A file of a Next.js project outside the Next.js folders, and a file with a
\* special basename, both answered nextjs.
C19_Witness ==
    /\ reply.op = "detectFrameworkForFile"
    /\ reply.info.framework = "nextjs"
    /\ ~InNextFolder(reply.filePath)
    /\ reply.framework = "nextjs"

-----------------------------------------------------------------------------
(* Properties of the whole-project scans *)

ProjectScans == Walks \cup {"analyzeProject", "analyzeProjectSecurity", "analyzeProjectAccessibility"}

\* The root a whole-project scan is to walk.
RootToWalk == IF env # <<>> THEN env[1] ELSE Root

\* C20: with WORKSPACE_ROOT set and no path given, every whole-project scan
\* (analyze-code, review-code, optimize-code, find-repeated-code,
\* check-security, check-accessibility) walks the tree rooted at
\* WORKSPACE_ROOT: its root is that path and the files it finds lie under it;
\* the working directory is walked only when the variable is unset.
C20_WorkspaceRootWalked ==
    scan.op \in ProjectScans =>
        /\ scan.root = RootToWalk
        /\ \A k \in 1..Len(scan.found) : SubSeq(scan.found[k], 1, Len(RootToWalk)) = RootToWalk

-----------------------------------------------------------------------------
(* checkRule called again on the same rule and text *)

\* `const violations = []`: every call starts from a list of its own, whatever
\* an earlier call pushed.
KeptViolations(earlier) == earlier
NewViolations(earlier) == <<>>

\* What a call of checkRule hands back: whether it threw and its list.
RuleOutcome(earlier, res) ==
    [threw |-> res.threw, violations |-> NewViolations(earlier) \o res.violations]

\* The list an earlier call on the same analyzer and rule returned.
EarlierCall(analyzer, k) ==
    IF reply.op = "checkRule" /\ reply.analyzer = analyzer /\ reply.rule = k
    THEN <<reply.outcome>>
    ELSE <<>>

EarlierViolations(analyzer, k) ==
    IF EarlierCall(analyzer, k) = <<>> THEN <<>> ELSE EarlierCall(analyzer, k)[1].violations

\* SecurityAnalyzer.checkRule(file.code, file.path, rules[k]); every regular
\* expression is built inside the call and scans from offset 0.
SecCheckRuleCall(k) ==
    /\ reply' = [op |-> "checkRule", analyzer |-> "security", rule |-> k,
                 outcome |-> RuleOutcome(EarlierViolations("security", k),
                                         SecCheckRule(file.code, file.path, sec.rules[k])),
                 earlier |-> EarlierCall("security", k)]
    /\ UNCHANGED <<engine, beside>>

\* AccessibilityAnalyzer.checkRule(file.code, file.path, rules[k])
A11yCheckRuleCall(k) ==
    /\ reply' = [op |-> "checkRule", analyzer |-> "accessibility", rule |-> k,
                 outcome |-> RuleOutcome(EarlierViolations("accessibility", k),
                                         A11yCheckRule(file.code, file.path, a11yRules[k])),
                 earlier |-> EarlierCall("accessibility", k)]
    /\ UNCHANGED <<engine, beside>>

CheckSecurityRule == \E k \in 1..Len(sec.rules) : SecCheckRuleCall(k)

CheckAccessibilityRule == \E k \in 1..Len(a11yRules) : A11yCheckRuleCall(k)

NextAgain ==
    \/ CheckSecurityRule
    \/ CheckAccessibilityRule

SpecAgain == Init /\ [][NextAgain]_vars

-----------------------------------------------------------------------------
(* Properties of repeated evaluation *)

-----------------------------------------------------------------------------
(* Overlapping tool invocations resolving the framework profile *)

\* `this.cachedProjectInfo = { framework, ... }`
NothingCached(info) == <<>>
CachedProjectInfo(info) == <<info>>

\* A tool handler is an async function: it runs to its first await without
\* interruption, and again from each await to the next.  detectFramework is
\* synchronous (existsSync, readFileSync), so a resolution is one step.  Every
\* caller passes no root.
Invocations == {1, 2}

NotStarted == [at |-> "start", seen |-> <<>>]

\* One stretch of invocation i between two awaits, resolving the profile:
\* the first brings it from "start" to "awaiting", the second to "done".
Resolve(i) ==
    /\ calls # <<>>
    /\ calls[i].at # "done"
    /\ calls' = [calls EXCEPT ![i] =
                    [at   |-> IF calls[i].at = "start" THEN "awaiting" ELSE "done",
                     seen |-> Append(calls[i].seen, DetectFramework(detector, ProjectAt(<<>>)))]]
    /\ detector' = IF detector # <<>> THEN detector
                   ELSE CachedProjectInfo(DetectFramework(detector, ProjectAt(<<>>)))
    /\ UNCHANGED <<rulesFile, disk, sec, a11yRules, codeFw, file, last, tree, scan,
                   fileState, built, reply, disabled, stale, beside, away, env, workspace, reviewer>>

ResolveFirst == Resolve(1)

ResolveSecond == Resolve(2)

\* The project is not touched while the invocations run; the cache is empty,
\* or filled by an earlier resolution of the same directory.
InitOverlap ==
    /\ rulesFile = [f \in {"react-security", "nextjs-security", "accessibility"} |-> AdminRules(TRUE)]
    /\ a11yRules = <<>>
    /\ sec = NewSecurityAnalyzer
    /\ file = [code |-> AB, path |-> PlainPath]
    /\ disk \in DetectProjects
    /\ detector \in {<<>>, <<ComputeProjectInfo(disk)>>}
    /\ codeFw = "unknown"
    /\ last = NoCheck
    /\ tree = EmptyTree
    /\ scan = NoScan
    /\ fileState = [f \in RuleFileNames |-> "ok"]
    /\ built = "none"
    /\ reply = NoReply
    /\ disabled = {}
    /\ stale = FALSE
    /\ configFiles = NoConfigFiles
    /\ configCache = <<>>
    /\ away \in AwayProjects
    /\ env = <<>>
    /\ workspace = EmptyTree
    /\ reviewer = <<>>
    /\ calls = [i \in Invocations |-> NotStarted]

NextOverlap ==
    \/ ResolveFirst
    \/ ResolveSecond

SpecOverlap == InitOverlap /\ [][NextOverlap]_vars

-----------------------------------------------------------------------------
(* Properties of overlapping invocations *)

\* C22: for a fixed project directory, in every interleaving of two
\* overlapping invocations that resolve the profile, both see the same
\* profile and the cache ends up holding it.
C22_SameProfileSeen ==
    calls # <<>> =>
        \A i \in Invocations : \A k \in 1..Len(calls[i].seen) :
            /\ detector = <<calls[i].seen[k]>>
            /\ \A j \in Invocations : \A l \in 1..Len(calls[j].seen) :
                  calls[j].seen[l] = calls[i].seen[k]

\* Both invocations are in flight, each having resolved the profile of a
\* Next.js project on an empty cache, and the first has resumed before the
\* second ends.
C22_Witness ==
    /\ calls # <<>>
    /\ calls[1].at = "done"
    /\ calls[2].at = "awaiting"
    /\ calls[1].seen[1].framework = "nextjs"
    /\ calls[2].seen[1].hasAppRouter

-----------------------------------------------------------------------------
(* Properties of analyzeCode *)

\* What analyzeCodeSecurity reports for the file under check.
SecurityIssuesNow == SecurityResult(file.code, file.path, sec.rules).issues

\* C23: whatever the detected framework, the issues analyzeCode returns
\* include every issue analyzeCodeSecurity reports for the same code and
\* path, and the score is computed over a list that holds them already.
C23_SecurityIssuesIncluded ==
    (last.op = "code" /\ ~last.threw) =>
        /\ \A i \in 1..Len(SecurityIssuesNow) :
              \E j \in 1..Len(last.issues) : last.issues[j] = SecurityIssuesNow[i]
        /\ last.score = CodeScore(last.issues)

-----------------------------------------------------------------------------
(* mcpResponse and executeToolSafely *)

\* JavaScript values: strings, null, undefined, and values JSON.stringify
\* turns into a text; an Error carries its message.
Str(s) == [t |-> "string", v |-> s]
Null == [t |-> "null", v |-> ""]
Undefined == [t |-> "undefined", v |-> ""]
Num(n) == [t |-> "number", v |-> n]
Bool(b) == [t |-> "boolean", v |-> b]
Obj(name) == [t |-> "object", v |-> name]
Err(message) == [t |-> "Error", v |-> message]

\* typeof value
TypeOf(value) == IF value.t \in {"null", "Error"} THEN "object" ELSE value.t

\* JSON.stringify(value, null, 2) of the values above: undefined has no text.
JsonStringify(value) ==
    CASE value.t = "string"    -> <<"\"" \o value.v \o "\"">>
      [] value.t = "null"      -> <<"null">>
      [] value.t = "undefined" -> <<>>
      [] value.t = "number"    -> <<IF value.v = 0 THEN "0" ELSE "42">>
      [] value.t = "boolean"   -> <<IF value.v THEN "true" ELSE "false">>
      [] value.t = "Error"     -> <<"{}">>
      [] value.v = "none"      -> <<"{}">>
      [] value.v = "list"      -> <<"[]">>
      [] value.v = "path"      -> <<"{\n  \"filePath\": \"x.j\"\n}">>
      [] OTHER                 -> <<"{\n  \"issues\": []\n}">>

\* estimateUsageFromText: text.length of something that is no text throws.
CeilDiv(n, d) == (n + d - 1) \div d

EstimateUsageFromText(inputText, outputText) ==
    IF inputText = <<>> \/ outputText = <<>> THEN [threw |-> TRUE]
    ELSE [threw             |-> FALSE,
          input_tokens      |-> CeilDiv(Len(inputText[1]), 4),
          output_tokens     |-> CeilDiv(Len(outputText[1]), 4),
          total_tokens      |-> CeilDiv(Len(inputText[1]), 4) + CeilDiv(Len(outputText[1]), 4),
          premium_hits_used |-> Max(1, CeilDiv(CeilDiv(Len(inputText[1]), 4)
                                               + CeilDiv(Len(outputText[1]), 4), 500))]

\* The text mcpResponse puts in the response (stringify is left at true).
OutputText(output) == IF output.t = "string" THEN <<output.v>> ELSE JsonStringify(output)

NullOutputMessage == "Error: Tool returned null or undefined output"

\* mcpResponse({input, output, isError}): [threw], or the response with its
\* text, its usage, and isError as <<TRUE>> or <<>> (the key is absent).
ResponseWith(text, usage, isError) ==
    IF usage.threw THEN [threw |-> TRUE]
    ELSE [threw |-> FALSE, text |-> text[1], usage |-> usage,
          isError |-> IF isError THEN <<TRUE>> ELSE <<>>]

McpResponse(input, output, isError) ==
    IF output.t \in {"null", "undefined"}
    THEN ResponseWith(<<NullOutputMessage>>,
                      EstimateUsageFromText(JsonStringify(input), <<NullOutputMessage>>), TRUE)
    ELSE ResponseWith(OutputText(output),
                      EstimateUsageFromText(JsonStringify(input), OutputText(output)), isError)

\* `if (output === null || output === undefined) throw new Error(...)`
OutputNeverInvalid(output) == FALSE
OutputInvalid(output) == output.t \in {"null", "undefined"}

\* What the catch block receives: what the tool function threw or rejected
\* with, the Error thrown on an invalid output, or what mcpResponse threw.
Caught(input, outcome) ==
    IF outcome.kind # "returns" THEN <<outcome.value>>
    ELSE IF OutputInvalid(outcome.value)
    THEN <<Err("Tool returned invalid output: " \o TypeOf(outcome.value))>>
    ELSE IF McpResponse(input, outcome.value, FALSE).threw
    THEN <<Err("Cannot read properties of undefined (reading 'length')")>>
    ELSE <<>>

ErrorMessage(error) == IF error.t = "Error" THEN error.v ELSE "Unknown error occurred"

\* executeToolSafely(input, toolFn): how its promise settles, and with what.
ExecuteToolSafely(input, outcome) ==
    IF Caught(input, outcome) = <<>>
    THEN [settled |-> "resolved", response |-> McpResponse(input, outcome.value, FALSE)]
    ELSE IF McpResponse(input, Str(ErrorMessage(Caught(input, outcome)[1])), TRUE).threw
    THEN [settled |-> "rejected", response |-> [threw |-> TRUE]]
    ELSE [settled |-> "resolved",
          response |-> McpResponse(input, Str(ErrorMessage(Caught(input, outcome)[1])), TRUE)]

\* A tool handler calls executeToolSafely, which starts the tool function and
\* awaits it.
InvokeTool(i, input, outcome) ==
    /\ calls # <<>>
    /\ calls[i].at = "start"
    /\ calls' = [calls EXCEPT ![i] = [at |-> "awaiting", input |-> input, outcome |-> outcome]]
    /\ UNCHANGED <<rulesFile, disk, detector, sec, a11yRules, codeFw, file, last, tree, scan,
                   fileState, built, reply, disabled, stale, beside, away, env, workspace, reviewer>>

\* The awaited promise has settled: the rest of executeToolSafely runs.
Respond(i) ==
    /\ calls # <<>>
    /\ calls[i].at = "awaiting"
    /\ calls' = [calls EXCEPT ![i] =
                    [at |-> "done", input |-> calls[i].input, outcome |-> calls[i].outcome,
                     result |-> ExecuteToolSafely(calls[i].input, calls[i].outcome)]]
    /\ UNCHANGED <<rulesFile, disk, detector, sec, a11yRules, codeFw, file, last, tree, scan,
                   fileState, built, reply, disabled, stale, beside, away, env, workspace, reviewer>>

-----------------------------------------------------------------------------
(* Tool functions of every outcome behind executeToolSafely *)

\* The handlers pass an object built from the validated arguments.
ToolInputs == {Obj("none"), Obj("path")}

Errors == {Err(""), Err("ENOENT"), Err("Unexpected token"), Str("boom"), Num(42), Undefined}

Outputs ==
    {Str(""), Str("ok"), Str("{}"), Null, Undefined, Num(0), Num(42), Bool(FALSE), Bool(TRUE),
     Obj("none"), Obj("list"), Obj("result")}

\* The tool function returns a value, throws before its first await, or
\* rejects later.
Outcomes ==
    {[kind |-> "returns", value |-> v] : v \in Outputs}
    \cup {[kind |-> k, value |-> e] : k \in {"throws", "rejects"}, e \in Errors}

InitSafely ==
    /\ rulesFile = [f \in {"react-security", "nextjs-security", "accessibility"} |-> AdminRules(TRUE)]
    /\ a11yRules = <<>>
    /\ sec = NewSecurityAnalyzer
    /\ file = [code |-> AB, path |-> PlainPath]
    /\ disk = NextProject
    /\ detector = <<>>
    /\ codeFw = "unknown"
    /\ last = NoCheck
    /\ tree = EmptyTree
    /\ scan = NoScan
    /\ fileState = [f \in RuleFileNames |-> "ok"]
    /\ built = "none"
    /\ reply = NoReply
    /\ disabled = {}
    /\ stale = FALSE
    /\ configFiles = NoConfigFiles
    /\ configCache = <<>>
    /\ away = NextProject
    /\ env = <<>>
    /\ workspace = EmptyTree
    /\ reviewer = <<>>
    /\ calls = [i \in Invocations |-> [at |-> "start"]]

Invoke == \E i \in Invocations, input \in ToolInputs, outcome \in Outcomes : InvokeTool(i, input, outcome)

Settle == \E i \in Invocations : Respond(i)

NextSafely ==
    \/ Invoke
    \/ Settle

SpecSafely == InitSafely /\ [][NextSafely]_vars

-----------------------------------------------------------------------------
(* Properties of executeToolSafely *)

\* The message of what the tool function failed with.
FailureMessage(outcome) ==
    IF outcome.kind = "returns" THEN "Tool returned invalid output: " \o TypeOf(outcome.value)
    ELSE IF outcome.value.t = "Error" THEN outcome.value.v
    ELSE "Unknown error occurred"

Fails(outcome) == outcome.kind # "returns" \/ outcome.value.t \in {"null", "undefined"}

\* C24: executeToolSafely never rejects.  When the tool function throws,
\* rejects or returns null or undefined, it resolves to a response with
\* isError true whose text is the error message; for any other output it
\* resolves to a response without isError whose text is the output string,
\* or the JSON serialization of an output that is no string.
C24_NeverRejects ==
    \A i \in DOMAIN calls :
        calls[i].at = "done" =>
            /\ calls[i].result.settled = "resolved"
            /\ ~calls[i].result.response.threw
            /\ IF Fails(calls[i].outcome)
               THEN /\ calls[i].result.response.isError = <<TRUE>>
                    /\ calls[i].result.response.text = FailureMessage(calls[i].outcome)
               ELSE /\ calls[i].result.response.isError = <<>>
                    /\ calls[i].result.response.text =
                          (IF calls[i].outcome.value.t = "string" THEN calls[i].outcome.value.v
                           ELSE JsonStringify(calls[i].outcome.value)[1])

\* Two invocations have settled: one whose tool function returned null, one
\* whose tool function rejected with an Error.
C24_Witness ==
    /\ DOMAIN calls = Invocations
    /\ calls[1].at = "done"
    /\ calls[2].at = "done"
    /\ calls[1].outcome = [kind |-> "returns", value |-> Null]
    /\ calls[2].outcome = [kind |-> "rejects", value |-> Err("ENOENT")]
    /\ calls[2].result.response.text = "ENOENT"

-----------------------------------------------------------------------------
(* Properties of malformed qualifiers *)

AllValid(pats) == \A k \in 1..Len(pats) : ValidRegex(pats[k])

\* No entry of the rule's excludePatterns, requirePatterns or requireAbsence
\* is malformed.
QualifiersValid(rule) ==
    /\ AllValid(rule.detection.excludePatterns)
    /\ AllValid(rule.detection.requirePatterns)
    /\ AllValid(rule.detection.requireAbsence)

\* C25: a malformed entry among the excludePatterns, requirePatterns or
\* requireAbsence of one rule never aborts a file check: analyzeCodeSecurity
\* and analyzeCodeAccessibility return a result, and every other rule has the
\* violations it has without that entry.
C25_MalformedQualifierContained ==
    FileChecked =>
        /\ ~last.threw
        /\ \A k \in 1..Len(last.rules) :
              QualifiersValid(last.rules[k]) =>
                  IssuesOf(last.rules[k].id) = IssuesAlone(last.op, last.rules[k])

-----------------------------------------------------------------------------
(* Properties of the scan counters *)

\* C26: a scanned file whose check returned no issue is not in results, yet
\* it is counted in totalFilesScanned, which is the number of source files
\* the traversal found; filesWithIssues never exceeds it.
C26_CleanFilesCounted ==
    (scan.op # "none" /\ ~scan.threw) =>
        /\ \A k \in 1..Len(scan.evaluated) :
              scan.evaluated[k].issues = 0 =>
                  /\ \A r \in 1..Len(scan.results) : scan.results[r].file # scan.evaluated[k].file
                  /\ \E f \in 1..Len(scan.found) : scan.found[f] = scan.evaluated[k].file
        /\ scan.totalFilesScanned = Len(scan.found)
        /\ scan.filesWithIssues <= scan.totalFilesScanned

\* A scan that found a file without issues next to one with issues.
C26_Witness ==
    /\ scan.op \in {"analyzeProjectSecurity", "checkSecurityInDirectory"}
    /\ ~scan.threw
    /\ scan.results # <<>>
    /\ \E k \in 1..Len(scan.evaluated) : scan.evaluated[k].issues = 0
    /\ scan.filesWithIssues < scan.totalFilesScanned

-----------------------------------------------------------------------------
(* Properties of fileGlobs *)

\* The path matches the glob: "**" stands for any characters, across
\* directory segments; a single "*" for any characters but "/"; every other
\* character for itself.
RECURSIVE GlobMatches(_, _)
GlobMatches(glob, path) ==
    IF glob = <<>> THEN path = <<>>
    ELSE IF Len(glob) >= 2 /\ glob[1] = "*" /\ glob[2] = "*"
         THEN \E k \in 0..Len(path) :
                 GlobMatches(SubSeq(glob, 3, Len(glob)), SubSeq(path, k + 1, Len(path)))
    ELSE IF glob[1] = "*"
         THEN \E k \in 0..Len(path) :
                 /\ \A j \in 1..k : path[j] # "/"
                 /\ GlobMatches(Tail(glob), SubSeq(path, k + 1, Len(path)))
    ELSE path # <<>> /\ path[1] = glob[1] /\ GlobMatches(Tail(glob), Tail(path))

\* The violations of the rule on the file under check, its fileGlobs put aside.
ViolationsWithoutGlobs(op, rule) ==
    IF op = "security"
    THEN SecCheckRule(file.code, file.path, [rule EXCEPT !.detection.fileGlobs = <<>>]).violations
    ELSE A11yCheckRule(file.code, file.path, [rule EXCEPT !.detection.fileGlobs = <<>>]).violations

\* C27: a config-scoped rule with fileGlobs yields no violation unless the
\* path matches one of its globs ("**" across directory segments, "*" within
\* one), and is evaluated when it does; a rule of another scope ignores its
\* fileGlobs.
C27_GlobsRestrictConfigRules ==
    (FileChecked /\ ~last.threw) =>
        \A j \in 1..Len(last.ruleResults) :
            LET rule == last.ruleResults[j].rule
            IN  IF /\ rule.scope = "config"
                   /\ rule.detection.fileGlobs # <<>>
                   /\ \A g \in 1..Len(rule.detection.fileGlobs) :
                         ~GlobMatches(rule.detection.fileGlobs[g], file.path)
                THEN last.ruleResults[j].violations = <<>>
                ELSE last.ruleResults[j].violations = ViolationsWithoutGlobs(last.op, rule)

-----------------------------------------------------------------------------
(* The scan loop of checkRule, one regex.exec at a time *)

\* The longest list of violations a call is followed to: one more than two
\* patterns can push on the longest text when every match has a length.
MaxPushed == 2 * MaxLen + 1

\* The pattern of the model that matches the empty string, as an anchor or a
\* lookahead does: the empty pattern, which matches at every offset.
Empty == <<>>

\* regex.exec(code) of a global regex: the first match at or after lastIndex,
\* <<>> when there is none (exec then returns null and resets lastIndex).
ExecAt(p, code, lastIndex) ==
    IF \E i \in lastIndex..Len(code) : MatchAt(p, code, i)
    THEN <<CHOOSE i \in lastIndex..Len(code) :
              MatchAt(p, code, i) /\ \A g \in lastIndex..(i - 1) : ~MatchAt(p, code, g)>>
    ELSE <<>>

\* lastIndex after a match at index: exec leaves it at the end of the match,
\* which is the start of a match of length zero.
LastIndexAfter(p, index) == index + Len(p)

\* The rule a call of checkRule evaluates, and what its qualifier tests
\* answer on the text: "true", "false" or "throw".
RuleOf(call) == IF call.analyzer = "security" THEN sec.rules[1] ELSE a11yRules[1]

Answer(b) == IF b THEN "true" ELSE "false"

ExcludedOf(call) ==
    IF call.analyzer = "security"
    THEN SecIsExcluded(RuleOf(call).detection.excludePatterns, file.code)
    ELSE Answer(A11ySome(RuleOf(call).detection.excludePatterns, file.code))

RequiredOf(call) ==
    IF RuleOf(call).detection.requirePatterns = <<>> THEN "true"
    ELSE IF call.analyzer = "security"
    THEN SecHasRequired(RuleOf(call).detection.requirePatterns, file.code)
    ELSE Answer(A11ySome(RuleOf(call).detection.requirePatterns, file.code))

AbsenceOf(call) ==
    IF RuleOf(call).detection.requireAbsence = <<>> THEN "false"
    ELSE IF call.analyzer = "security"
    THEN SecHasAbsence(RuleOf(call).detection.requireAbsence, file.code)
    ELSE Answer(A11ySome(RuleOf(call).detection.requireAbsence, file.code))

\* The call goes on with the next entry of patterns, or returns after the last.
NextPattern(call) ==
    IF call.ix < Len(RuleOf(call).detection.patterns)
    THEN [call EXCEPT !.ix = call.ix + 1, !.lastIndex = 0]
    ELSE [call EXCEPT !.at = "returned", !.lastIndex = 0]

\* checkRule up to its loop: the glob test and the exclusion test.
EnterCheckRule ==
    /\ calls # <<>>
    /\ calls[1].at = "start"
    /\ calls' = <<IF ExcludedOf(calls[1]) = "throw" THEN [calls[1] EXCEPT !.at = "threw"]
                  ELSE IF ExcludedOf(calls[1]) = "true" \/ RuleOf(calls[1]).detection.patterns = <<>>
                  THEN [calls[1] EXCEPT !.at = "returned"]
                  ELSE [calls[1] EXCEPT !.at = "loop"]>>
    /\ UNCHANGED <<rulesFile, disk, detector, sec, a11yRules, codeFw, file, last, tree, scan,
                   fileState, built, reply, disabled, stale, beside, away, env, workspace, reviewer>>

\* One evaluation of the loop condition `(match = regex.exec(code)) !== null`
\* and, on a match, one run of the loop body.  A malformed pattern, or a
\* qualifier test that throws, leaves the try block for the next pattern.
ExecOnce ==
    /\ calls # <<>>
    /\ calls[1].at = "loop"
    /\ Len(calls[1].violations) < MaxPushed
    /\ LET call  == calls[1]
           p     == RuleOf(call).detection.patterns[call.ix]
           match == ExecAt(p, file.code, call.lastIndex)
           moved == [call EXCEPT !.lastIndex = LastIndexAfter(p, match[1])]
       IN  calls' = <<IF ~ValidRegex(p) THEN NextPattern(call)
                      ELSE IF match = <<>> THEN NextPattern(call)
                      ELSE IF RequiredOf(call) = "throw" THEN NextPattern(call)
                      ELSE IF RequiredOf(call) = "false" THEN moved
                      ELSE IF AbsenceOf(call) = "throw" THEN NextPattern(call)
                      ELSE IF AbsenceOf(call) = "true" THEN moved
                      ELSE [moved EXCEPT !.violations =
                               Append(call.violations, Violation(RuleOf(call), file.code, match[1]))]>>
    /\ UNCHANGED <<rulesFile, disk, detector, sec, a11yRules, codeFw, file, last, tree, scan,
                   fileState, built, reply, disabled, stale, beside, away, env, workspace, reviewer>>

\* Rules whose patterns match, fail to compile, or match the empty string,
\* with and without a requirement.
LoopRuleLists ==
    { << Rule("r1", "critical", TRUE, "code", Detection(pats, req, <<>>, excl, <<>>)) >> :
        pats \in {<<A>>, <<A, AB>>, <<Bad, A>>, <<Empty>>, <<A, Empty>>, <<>>},
        req  \in {<<>>, <<B>>, <<Bad>>},
        excl \in {<<>>, <<BA>>, <<Bad>>} }

InitLoop ==
    /\ \E rules \in LoopRuleLists :
          /\ rulesFile = [f \in {"react-security", "nextjs-security", "accessibility"} |-> rules]
          /\ a11yRules = rules
          /\ sec = [framework |-> "nextjs", rules |-> rules]
    /\ \E code \in Texts : file = [code |-> code, path |-> PlainPath]
    /\ disk = NextProject
    /\ detector = <<ComputeProjectInfo(NextProject)>>
    /\ codeFw = "nextjs"
    /\ last = NoCheck
    /\ tree = EmptyTree
    /\ scan = NoScan
    /\ fileState = [f \in RuleFileNames |-> "ok"]
    /\ built = "ok"
    /\ reply = NoReply
    /\ disabled = {}
    /\ stale = FALSE
    /\ configFiles = NoConfigFiles
    /\ configCache = <<>>
    /\ away = NextProject
    /\ env = <<>>
    /\ workspace = EmptyTree
    /\ reviewer = <<>>
    /\ \E analyzer \in {"security", "accessibility"} :
          calls = <<[analyzer |-> analyzer, at |-> "start", ix |-> 1, lastIndex |-> 0,
                     violations |-> <<>>]>>

NextLoop ==
    \/ EnterCheckRule
    \/ ExecOnce

\* The call keeps running: a step that can be taken is taken.
SpecLoop == InitLoop /\ [][NextLoop]_vars /\ WF_vars(NextLoop)

-----------------------------------------------------------------------------
(* Properties of the scan loop *)

\* C28: checkRule terminates for every rule and every text, rules whose
\* patterns match the empty string included: the call returns (or throws).
C28_CheckRuleTerminates == <>(calls[1].at \in {"returned", "threw"})

-----------------------------------------------------------------------------
(* The configuration manager over a default file alone, rules toggled *)

\* No override exists before the first update: the default file is the only
\* one, and its rule ids are unique.
InitSaved ==
    /\ InitConfig
    /\ configFiles["default"] # <<>>
    /\ \A name \in {"user", "preset", "project"} : configFiles[name] = <<>>

SpecSaved == InitSaved /\ [][NextConfig]_vars

-----------------------------------------------------------------------------
(* Properties of saved updates *)

\* The rules of the loaded config.
LoadedRules == configCache[1]["securityRules"].v

\* C29: over a default config with unique rule ids, after any toggleRule /
\* updateRule, clearCache and loadConfig calls the loaded config has exactly
\* one rule per id, and that rule carries the most recent update.  (Only
\* updateRule writes the project's file, right after it updated the rule: the
\* first rule of an id in that file carries the most recent update.)
C29_OneRulePerId ==
    (configCache # <<>> /\ HasSecurityRules(configCache[1])) =>
        /\ \A i \in 1..Len(LoadedRules), j \in 1..Len(LoadedRules) :
              LoadedRules[i].id = LoadedRules[j].id => i = j
        /\ \A ruleId \in RuleIds :
              HasRule(FileRules("project"), ruleId) =>
                  \A k \in 1..Len(LoadedRules) :
                      LoadedRules[k].id = ruleId =>
                          LoadedRules[k].enabled =
                              FileRules("project")[FirstWithId(FileRules("project"), ruleId)].enabled

-----------------------------------------------------------------------------
(* The code reviewer.  The text under review is given by what the reviewer's
   expressions find in it: `file.code` is the record of those findings. *)

\* A JavaScript number: NaN or a value.
NaN == [nan |-> TRUE, value |-> 0]
Number(value) == [nan |-> FALSE, value |-> value]

\* Math.max(0, Math.min(100, score))
Clamp(score) == Max(0, Min(100, score))

\* calculateMaintainability.  lines is code.split('\n').length, at least 1;
\* length / functions > 500 and comments / lines < 0.05 are compared without
\* the division.
CalculateMaintainability(code) ==
    Clamp(100
          - (IF code.lines > 300 THEN 20 ELSE IF code.lines > 200 THEN 10 ELSE 0)
          - (IF code.functions > 0 /\ code.length > 500 * code.functions THEN 15 ELSE 0)
          - (IF 20 * code.comments < code.lines THEN 10 ELSE 0)
          - (IF code.magicNumbers > 5 THEN 10 ELSE 0))

\* calculateComplexity: indicators is the sum of the nine match counts.
CalculateComplexity(code) == 100 - Min(100, code.indicators * 2)

\* calculateTestability: hasBusinessLogic tests the expression functions counts.
CalculateTestability(code) ==
    Clamp(100
          - (IF code.hasSideEffects THEN 20 ELSE 0)
          - (IF code.hasHardcodedDeps THEN 15 ELSE 0)
          - (IF ~code.hasExports THEN 20 ELSE 0)
          + (IF code.functions > 0 /\ code.hasUI THEN 10 ELSE 0))

\* calculateReadability
CalculateReadability(code) ==
    Clamp(100
          - (IF code.shortNames > 5 THEN 15 ELSE 0)
          - (IF code.longLines > 10 THEN 10 ELSE 0)
          - (IF code.maxNesting > 4 THEN 20 ELSE IF code.maxNesting > 3 THEN 10 ELSE 0)
          - (IF code.inconsistentIndentation THEN 15 ELSE 0))

AssessQuality(code) ==
    [maintainability |-> CalculateMaintainability(code),
     complexity      |-> CalculateComplexity(code),
     testability     |-> CalculateTestability(code),
     readability     |-> CalculateReadability(code)]

\* /\.(tsx|jsx)$/ and /\/(layout|page)\.(tsx|jsx)$/ on the path
IsReactFile(filePath) ==
    EndsWith(filePath, <<".">> \o Tsx) \/ EndsWith(filePath, <<".">> \o Jsx)

IsLayoutPage(filePath) ==
    \E name \in {<<"l", "a", "y", "o", "u", "t">>, <<"p", "a", "g", "e">>}, ext \in {Tsx, Jsx} :
        EndsWith(filePath, <<"/">> \o name \o <<".">> \o ext)

\* checkSpecificPractice: the status of one practice.
PracticeStatus(rule, code, filePath) ==
    CASE rule = "use-server-components-by-default" ->
            IF IsReactFile(filePath) /\ ~code.hasClientDirective THEN "pass" ELSE "warning"
      [] rule = "client-directive-explicit" ->
            IF code.needsClient = code.hasClientDirective THEN "pass" ELSE "fail"
      [] rule = "next-image-required" ->
            IF code.hasImgTag THEN "fail" ELSE "pass"
      [] rule = "metadata-api" ->
            IF code.hasHead /\ IsLayoutPage(filePath) THEN "fail" ELSE "pass"
      [] rule = "server-actions-validation" ->
            IF code.hasServerAction /\ ~code.hasValidation THEN "fail" ELSE "pass"
      [] OTHER -> "warning"

\* checkBestPractices: one check per practice of this.rules.bestPractices, none
\* when the rules have no such list.  rules is <<>> or <<the list>>.
CheckBestPractices(rules, code, filePath) ==
    IF rules = <<>> THEN <<>>
    ELSE [k \in 1..Len(rules[1]) |->
             [rule |-> rules[1][k].rule,
              status |-> PracticeStatus(rules[1][k].rule, code, filePath)]]

PassedPractices(practices) ==
    Cardinality({k \in 1..Len(practices) : practices[k].status = "pass"})

QualitySum(quality) ==
    quality.maintainability + quality.complexity + quality.testability + quality.readability

\* calculateOverallScore: Math.round(qualityAvg * 0.6 + practicesScore * 0.4),
\* with qualityAvg = sum / 4 and practicesScore = passed / length * 100.  The
\* value is (3 * sum * length + 800 * passed) / (20 * length), and Math.round(x)
\* is floor(x + 0.5).  With no practice, 0 / 0 is NaN, and so is the score.
CalculateOverallScore(quality, practices) ==
    IF Len(practices) = 0
    THEN NaN
    ELSE Number((2 * (3 * QualitySum(quality) * Len(practices) + 800 * PassedPractices(practices))
                   + 20 * Len(practices)) \div (40 * Len(practices)))

\* loadRules(framework) reads and parses the file: it throws when the file is
\* missing or does not parse, after this.framework is assigned.
ReviewerLoadThrows(framework) == fileState[BestPracticesFileName(framework)] # "ok"

LoadRules(self, framework) ==
    [framework |-> framework,
     rules |-> IF ReviewerLoadThrows(framework) THEN self.rules
               ELSE rulesFile[BestPracticesFileName(framework)]]

\* The fields of a reviewer before its constructor has run.
FreshReviewer == [framework |-> "unknown", rules |-> <<>>]

\* `new CodeReviewer()`: loadRules() on the detected framework.  A constructor
\* that throws leaves no reviewer.
NewCodeReviewer ==
    /\ reviewer = <<>>
    /\ detector' = <<DetectFramework(detector, disk)>>
    /\ reviewer' = IF ReviewerLoadThrows(DetectFramework(detector, disk).framework)
                   THEN <<>>
                   ELSE <<LoadRules(FreshReviewer, DetectFramework(detector, disk).framework)>>
    /\ reply' = [op |-> "new CodeReviewer",
                 threw |-> ReviewerLoadThrows(DetectFramework(detector, disk).framework)]
    /\ UNCHANGED <<rulesFile, disk, sec, a11yRules, codeFw, file, last, tree, scan,
                   fileState, built, disabled, stale, beside, away, env, workspace, calls>>

\* The framework reviewCode loads rules for, "" when it keeps its rules.
Reload(self, fileFramework) ==
    IF fileFramework # self.framework /\ fileFramework # "unknown" THEN fileFramework ELSE ""

\* reviewer.reviewCode(code, filePath)
ReviewCode ==
    /\ reviewer # <<>>
    /\ detector' = <<DetectFramework(detector, disk)>>
    /\ LET fileFramework == DetectFrameworkForFile(DetectFramework(detector, disk), file.path)
           reload == Reload(reviewer[1], fileFramework)
           self == IF reload = "" THEN reviewer[1] ELSE LoadRules(reviewer[1], reload)
       IN  /\ reviewer' = <<self>>
           /\ reply' = IF reload # "" /\ ReviewerLoadThrows(reload)
                       THEN [op |-> "reviewCode", threw |-> TRUE]
                       ELSE [op |-> "reviewCode", threw |-> FALSE,
                             rules |-> self.rules,
                             codeQuality |-> AssessQuality(file.code),
                             bestPractices |-> CheckBestPractices(self.rules, file.code, file.path),
                             overallScore |->
                                 CalculateOverallScore(AssessQuality(file.code),
                                     CheckBestPractices(self.rules, file.code, file.path))]
    /\ UNCHANGED <<rulesFile, disk, sec, a11yRules, codeFw, file, last, tree, scan,
                   fileState, built, disabled, stale, beside, away, env, workspace, calls>>

-----------------------------------------------------------------------------
(* The reviewer over texts of every quality and rule files with and without
   practices, the project changing *)

\* A short clean text or a long one that trips every deduction, with few or
\* many branches, with or without an <img> tag and client-side hooks.
CodeMeasures ==
    {[lines |-> IF untidy THEN 400 ELSE 1,
      length |-> IF untidy THEN 600 ELSE 10,
      functions |-> IF untidy THEN 1 ELSE 0,
      comments |-> IF untidy THEN 0 ELSE 1,
      magicNumbers |-> IF untidy THEN 6 ELSE 0,
      indicators |-> indicators,
      hasSideEffects |-> untidy, hasHardcodedDeps |-> untidy, hasExports |-> ~untidy,
      hasUI |-> hasImgTag,
      shortNames |-> IF untidy THEN 6 ELSE 0,
      longLines |-> IF untidy THEN 11 ELSE 0,
      maxNesting |-> IF untidy THEN 5 ELSE 0,
      inconsistentIndentation |-> untidy,
      hasClientDirective |-> FALSE, needsClient |-> needsClient, hasImgTag |-> hasImgTag,
      hasHead |-> hasImgTag, hasServerAction |-> needsClient, hasValidation |-> FALSE] :
        untidy \in BOOLEAN, indicators \in {0, 7, 60},
        needsClient \in BOOLEAN, hasImgTag \in BOOLEAN}

ReviewPaths == {PlainPath, <<"c", "/", "p", "a", "g", "e", ".", "t", "s", "x">>}

Practice(rule) == [rule |-> rule]

\* A rule file: without bestPractices, with an empty list, with practices.
PracticeFiles ==
    { <<>>, << <<>> >>,
      << <<Practice("next-image-required")>> >>,
      << <<Practice("my-custom-rule")>> >>,
      << <<Practice("use-server-components-by-default"), Practice("client-directive-explicit"),
           Practice("next-image-required")>> >>,
      << <<Practice("metadata-api"), Practice("server-actions-validation"),
           Practice("my-custom-rule")>> >> }

InitReview ==
    /\ \E nextjs \in PracticeFiles, react \in {<<>>, << <<Practice("next-image-required")>> >>} :
          rulesFile = [f \in {"react-best-practices", "nextjs-best-practices"} |->
                          IF f = "react-best-practices" THEN react ELSE nextjs]
    /\ \E code \in CodeMeasures, path \in ReviewPaths : file = [code |-> code, path |-> path]
    /\ disk \in AdminProjects
    /\ \E st \in {"ok", "missing"} :
          fileState = [f \in RuleFileNames |-> IF f = "react-best-practices" THEN st ELSE "ok"]
    /\ detector = <<>>
    /\ sec = NewSecurityAnalyzer
    /\ a11yRules = <<>>
    /\ codeFw = "unknown"
    /\ built = "none"
    /\ last = NoCheck
    /\ tree = EmptyTree
    /\ scan = NoScan
    /\ reply = NoReply
    /\ disabled = {}
    /\ stale = FALSE
    /\ configFiles = NoConfigFiles
    /\ configCache = <<>>
    /\ away = NextProject
    /\ env = <<>>
    /\ workspace = EmptyTree
    /\ calls = <<>>
    /\ reviewer = <<>>

NextReview ==
    \/ NewCodeReviewer
    \/ ReviewCode
    \/ ClearCache
    \/ ChangeProject

SpecReview == InitReview /\ [][NextReview]_vars

-----------------------------------------------------------------------------
(* Properties of the review score *)

Reviewed == reply.op = "reviewCode" /\ ~reply.threw

\* C30: for every text and every loaded rule set, one with an empty or a
\* missing bestPractices list included, reviewCode returns an overallScore
\* that is an integer in [0, 100].
C30_OverallScoreInRange ==
    Reviewed => (~reply.overallScore.nan /\ reply.overallScore.value \in 0..100)

====
